---- MODULE Spec2Model ----
(***************************************************************************)
(* A model of plugins/obs-ffmpeg/texture-amf.cpp: the AMD AMF encoder      *)
(* adapter of obs-studio.                                                  *)
(*                                                                         *)
(* Three specifications share the module's variables:                      *)
(*   SpecPreset  the throughput-based preset downgrade                     *)
(*               (check_preset_compatibility);                             *)
(*   SpecCreate  creation of a texture encoder and its reroute to the      *)
(*               fallback encoder ID (amf_*_create_texencode);             *)
(*   Spec        one encoder instance at run time: the per-frame entry     *)
(*               points, amf_encode_base, the texture/buffer pool, the     *)
(*               surface-release callback and the destructor.              *)
(* Each specification leaves the other parts' variables at their initial   *)
(* values.                                                                 *)
(***************************************************************************)
EXTENDS Integers, Sequences, FiniteSets, TLC

VARIABLES
    \* ---- amf_base fields used by the configuration engine
    codec,              \* amf_base::codec
    preset,             \* the const char *&preset of check_preset_compatibility
    max_throughput,     \* amf_base::max_throughput (0: unknown)
    throughput,         \* amf_base::throughput
    props,              \* SetProperty calls issued on amf_encoder, in order
    caps_seen,          \* what each GetCaps/GetProperty re-query answered
    preset_in,          \* preset on entry to check_preset_compatibility
    max_in,             \* max_throughput on entry
    cfg_pc,             \* "start" | "checked" | "configured" | "initialised"
                        \* | "init_failed"
    settings,           \* the obs_data_t settings read by amf_*_init
    ovi,                \* what obs_get_video_info and the output report
    \* ---- creation of a texture encoder
    platform,           \* "win32" | "linux": the build (#ifdef _WIN32 / __linux)
    caps,               \* static std::map<uint32_t, adapter_caps> caps
    ovi_adapter,        \* obs_video_info::adapter
    scaling_enabled,    \* obs_encoder_scaling_enabled(encoder)
    nv12_tex_active,    \* obs_nv12_tex_active()
    p010_tex_active,    \* obs_p010_tex_active()
    voi_format,         \* video_output_info::format
    voi_colorspace,     \* video_output_info::colorspace
    create_fail,        \* the step at which creation failed, or "none"
    create_result,      \* what the create callback returned
    create_pc,          \* "start" | "created" | "fallback_created"
    last_error,         \* the text given to obs_encoder_set_last_error
    sdk_started,        \* amf_*_create_internal was entered
    \* ---- one encoder instance at run time
    inst,               \* "texencode" (amf_texencode) | "fallback" (amf_fallback)
    pc,                 \* position of the encode thread
    entry,              \* the per-frame entry point of the current call
    bad_input,          \* handle == GS_INVALID_HANDLE / texture == NULL
    rp_in,              \* *received_packet as the caller left it
    received_packet,    \* *received_packet
    ret,                \* "none" | "true" | "false": the call's return value
    exc,                \* the exception thrown in the current call
    output_tex,         \* local output_tex / buf (0: none)
    amf_surf,           \* local amf_surf (0: null)
    waiting,            \* amf_encode_base: bool waiting
    elapsed,            \* os_gettime_ns() - ts_start, in ms
    prev_elapsed,       \* the duration seen by the previous timeout test
    attempts,           \* SubmitInput calls made by the current call
    all_full,           \* every one of them returned AMF_INPUT_FULL
    calls,              \* encode calls made so far
    queued_packets,     \* amf_base::queued_packets
    delivered,          \* outputs handed to the host, in order
    delivered_in_call,  \* outputs handed to the host by the current call
    next_out,           \* the next output QueryOutput produces
    enc_pending,        \* frames the encoder accepted and has not output
    enc_held,           \* surfaces the encoder holds a reference to
    allocated,          \* output textures / buffers allocated and not freed
    available_textures, \* available_textures / available_buffers
    active_textures,    \* active_textures / active_buffers: <<surface, texture>>
    textures_mutex,     \* textures_mutex / buffers_mutex: "free" or its holder
    unlocked_access,    \* a pool or map access was made without the mutex
    cb_pc,              \* OnSurfaceDataRelease in progress, per thread
    cb_surf,            \* its argument, per thread
    destroying,         \* volatile bool destroying
    pools_alive,        \* the pool, the map and the mutex are not destroyed
    d_pc,               \* position of the destructor
    cb_after_flag,      \* a callback touched pool/map with destroying set
    cb_after_teardown,  \* a callback touched pool/map after their teardown
    \* ---- amf_load
    helper_out,         \* what the probe helper printed, as parsed
    load_fail,          \* the load step the environment makes fail, or "none"
    enable_hevc,        \* the build's ENABLE_HEVC
    registered,         \* the IDs given to obs_register_encoder, in order
    load_exc,           \* the type of the exception amf_load threw, or "none"
    load_escaped,       \* that exception left amf_load
    load_pc,            \* "start" | "probed" | "inited" | "returned"
    \* ---- the pool seen as whole operations
    pool_log,           \* the frame requests and release notifications so far
    gpu,                \* the GPU synchronisation calls of the current encode
                        \* call, and its lock_key and *next_key
    vkctx,              \* the Vulkan objects of an amf_texencode, its
                        \* input_textures and the calls of its destructor
    fb,                 \* an amf_fallback's format, linesize, cy and buffers
    gltex,              \* amf_texencode::gltex: its copy fence and its two
                        \* semaphores over consecutive amf_encode_tex2 calls
    \* ---- timestamps and packet conversion
    fps_den,            \* amf_base::fps_den
    bframes_supported,  \* amf_base::bframes_supported
    dts_offset,         \* amf_base::dts_offset
    dev,                \* what the encoder component answers during creation
    frame_pts,          \* the pts of the frame submitted
    surf_pts,           \* amf_surf->SetPts(cur_ts): vendor ticks
    packet,             \* the encoder_packet filled by the conversion
    pkt_pc              \* "new" | "failed" | "created" | "submitted" | "converted"

varsPreset == <<codec, preset, max_throughput, throughput, props, caps_seen,
                preset_in, max_in, cfg_pc, settings, ovi>>

varsCreate == <<platform, caps, ovi_adapter, scaling_enabled, nv12_tex_active,
                p010_tex_active, voi_format, voi_colorspace, create_fail,
                create_result, create_pc, last_error, sdk_started>>

varsCall == <<entry, bad_input, rp_in, received_packet, ret, exc, output_tex,
              amf_surf, waiting, elapsed, prev_elapsed, attempts, all_full,
              calls, delivered_in_call>>

varsEncoder == <<queued_packets, delivered, next_out, enc_pending, enc_held>>

varsPool == <<allocated, available_textures, active_textures, textures_mutex,
              unlocked_access>>

varsCallback == <<cb_pc, cb_surf, cb_after_flag, cb_after_teardown>>

varsDestroy == <<destroying, pools_alive, d_pc>>

varsEnc == <<inst, pc, varsCall, varsEncoder, varsPool, varsCallback,
             varsDestroy>>

varsLoad == <<helper_out, load_fail, enable_hevc, registered, load_exc,
              load_escaped, load_pc>>

varsPoolLog == <<pool_log, gpu, vkctx, fb, gltex>>

varsPacket == <<fps_den, bframes_supported, dts_offset, dev, frame_pts,
                surf_pts, packet, pkt_pc>>

vars == <<varsPreset, varsCreate, varsEnc, varsLoad, varsPoolLog, varsPacket>>

(***************************************************************************)
(* Each specification's variables while another specification runs         *)
(***************************************************************************)

\* The defaults of amf_defaults, with no ffmpeg_opts.
NoSettings ==
    [rate_control |-> "CBR", bitrate |-> 2500, cqp |-> 20, keyint_sec |-> 0,
     bf |-> 0, repeat_headers |-> FALSE, ffmpeg_opts |-> <<>>]

\* 1080p at 60/1, SDR.
NoVideo ==
    [width |-> 1920, height |-> 1080, fps_num |-> 60, transfer |-> "sdr",
     nominal_peak |-> 0]

\* The configuration variables while no configuration is modelled.
IdlePreset ==
    /\ settings = NoSettings
    /\ ovi = NoVideo
    /\ preset = "quality"
    /\ max_throughput = 0
    /\ throughput = 0
    /\ props = <<>>
    /\ caps_seen = <<>>
    /\ preset_in = "quality"
    /\ max_in = 0
    /\ cfg_pc = "start"

\* The creation variables, the platform apart, while no creation is modelled.
IdleCaps ==
    /\ caps = <<>>
    /\ ovi_adapter = 0
    /\ scaling_enabled = FALSE
    /\ nv12_tex_active = FALSE
    /\ p010_tex_active = FALSE
    /\ voi_format = "NV12"
    /\ voi_colorspace = "709"
    /\ create_fail = "none"
    /\ create_result = [kind |-> "none", id |-> ""]
    /\ create_pc = "start"
    /\ last_error = "none"
    /\ sdk_started = FALSE

IdleCreate ==
    /\ platform = "linux"
    /\ IdleCaps

\* The encoder_packet before the conversion wrote to it.
NoPacket == [pts |-> 0, dts |-> 0, priority |-> "unset", keyframe |-> FALSE]

\* No answer of the encoder component was used yet.
NoDevice ==
    [init_ok |-> TRUE, getcaps_ok |-> FALSE, cap_bframes |-> FALSE,
     pattern_ok |-> FALSE, max_ok |-> FALSE, b_frames |-> 0]

\* The timestamp and packet variables while no conversion is modelled.
IdlePacket ==
    /\ fps_den = 1
    /\ bframes_supported = FALSE
    /\ dts_offset = 0
    /\ dev = NoDevice
    /\ frame_pts = 0
    /\ surf_pts = 0
    /\ packet = NoPacket
    /\ pkt_pc = "new"

\* No synchronisation call was made; both keys are 0.
NoGpu == [log |-> <<>>, lock_key |-> 0, next_key |-> 0, next_key_in |-> 0]

\* No exception is in flight.
NoException == [kind |-> "none", msg |-> ""]

\* An amf_texencode right after its constructor: vk is null, no Vulkan or AMF
\* object exists, input_textures is empty, no teardown call was made.
NoVkCtx ==
    [phase |-> "new", vk |-> FALSE, have |-> {}, input_textures |-> <<>>,
     images |-> {}, memory |-> {}, next |-> 0, log |-> <<>>,
     crashed |-> FALSE, rerouted |-> FALSE]

\* An amf_fallback before amf_create_encoder: no format chosen, linesize 0,
\* no buffer allocated, nothing copied.
NoFallback ==
    [phase |-> "new", src |-> "NV12", format |-> "NV12", amf_format |-> "unset",
     linesize |-> 0, cy |-> 1, available_buffers |-> <<>>,
     active_buffers |-> <<>>, size |-> 0, written |-> 0, frames |-> 0,
     exc |-> NoException]

\* amf_texencode::gltex before create_gl_tex: glsem is 0, no fence and no
\* semaphore exists, no call of amf_encode_tex2 has been made.
NoGlTex ==
    [glsem |-> FALSE, step |-> 0, calls |-> 0, fence_sub |-> FALSE,
     copy_signal |-> 0, copy_waits |-> {}, gl_signal |-> 0, gl_waits |-> {},
     amf_pending |-> {}, blocked |-> FALSE, failed_at |-> 0]

\* The load variables while no load is modelled, the empty pool log and the
\* idle packet conversion.
IdleLoad ==
    /\ helper_out = [kind |-> "empty", sections |-> <<>>]
    /\ load_fail = "none"
    /\ enable_hevc = TRUE
    /\ registered = <<>>
    /\ load_exc = "none"
    /\ load_escaped = FALSE
    /\ load_pc = "start"
    /\ pool_log = <<>>
    /\ gpu = NoGpu
    /\ vkctx = NoVkCtx
    /\ fb = NoFallback
    /\ gltex = NoGlTex
    /\ IdlePacket

Threads == {"encode", "vendor"}

\* The run-time variables of a freshly constructed encoder instance.
FreshInstance ==
    /\ pc = "idle"
    /\ entry = "none"
    /\ bad_input = FALSE
    /\ rp_in = FALSE
    /\ received_packet = FALSE
    /\ ret = "none"
    /\ exc = NoException
    /\ output_tex = 0
    /\ amf_surf = 0
    /\ waiting = FALSE
    /\ elapsed = 0
    /\ prev_elapsed = 0
    /\ attempts = 0
    /\ all_full = TRUE
    /\ calls = 0
    /\ queued_packets = <<>>
    /\ delivered = <<>>
    /\ delivered_in_call = 0
    /\ next_out = 1
    /\ enc_pending = 0
    /\ enc_held = {}
    /\ allocated = {}
    /\ available_textures = <<>>
    /\ active_textures = {}
    /\ textures_mutex = "free"
    /\ unlocked_access = FALSE
    /\ cb_pc = [t \in Threads |-> "none"]
    /\ cb_surf = [t \in Threads |-> 0]
    /\ destroying = FALSE
    /\ pools_alive = TRUE
    /\ d_pc = "alive"
    /\ cb_after_flag = FALSE
    /\ cb_after_teardown = FALSE

\* The run-time variables while no encoder instance is modelled.
IdleEnc == inst = "fallback" /\ FreshInstance

(***************************************************************************)
(* Strings and case-insensitive comparison                                 *)
(***************************************************************************)

\* The preset strings the settings may carry: the schema's values, a
\* differently-cased spelling of two of them and a string no codec knows.
PresetStrings ==
    {"highQuality", "HIGHQUALITY", "quality", "Quality", "balanced", "speed",
     "slow"}

\* tolower() applied to every character, over the strings of the model.
ToLower(s) ==
    CASE s = "highQuality" -> "highquality"
      [] s = "HIGHQUALITY" -> "highquality"
      [] s = "Quality"     -> "quality"
      [] s = "CBR"         -> "cbr"
      [] s = "CQP"         -> "cqp"
      [] s = "VBR"         -> "vbr"
      [] s = "VBR_LAT"     -> "vbr_lat"
      [] s = "QVBR"        -> "qvbr"
      [] s = "HQVBR"       -> "hqvbr"
      [] s = "HQCBR"       -> "hqcbr"
      [] OTHER             -> s

\* astrcmpi(a, b) == 0
astrcmpi(a, b) == ToLower(a) = ToLower(b)

Codecs == {"AVC", "HEVC", "AV1"}

(***************************************************************************)
(* Creation of a texture encoder                                           *)
(***************************************************************************)

Platforms == {"win32", "linux"}

\* Largest number of adapter sections the probe helper reports.
MaxAdapters == 2

\* adapter_caps as default-constructed.
DefaultCaps ==
    [is_amd |-> FALSE, supports_avc |-> FALSE, supports_hevc |-> FALSE,
     supports_av1 |-> FALSE]

AdapterCaps ==
    {DefaultCaps,
     [is_amd |-> TRUE, supports_avc |-> TRUE, supports_hevc |-> FALSE,
      supports_av1 |-> FALSE],
     [is_amd |-> TRUE, supports_avc |-> TRUE, supports_hevc |-> TRUE,
      supports_av1 |-> TRUE]}

\* The tables amf_load builds: one entry per section 0..adapter_count-1.
CapsTables ==
    UNION {[0..(n - 1) -> AdapterCaps] : n \in 1..MaxAdapters}

Supports(info, c) ==
    CASE c = "AVC"  -> info.supports_avc
      [] c = "HEVC" -> info.supports_hevc
      [] OTHER      -> info.supports_av1

\* amf_load registers a codec's encoders when some adapter supports it.
Registered(tbl, c) == \E i \in DOMAIN tbl : Supports(tbl[i], c)

\* caps[i]: std::map::operator[] inserts a default entry for a missing key.
CapsAfterLookup(tbl, i) ==
    IF i \in DOMAIN tbl THEN tbl
    ELSE [j \in (DOMAIN tbl) \cup {i} |->
             IF j \in DOMAIN tbl THEN tbl[j] ELSE DefaultCaps]

VideoFormats == {"NV12", "I010", "P010"}
Colorspaces == {"709", "2100_PQ", "2100_HLG"}

\* check_texture_encode_capability: the message it throws, or "none".
check_texture_encode_capability(c, scaling, nv12, p010, fmt, cs, tbl, adapter) ==
    IF scaling THEN "Encoder scaling is active"
    ELSE IF c \in {"HEVC", "AV1"} /\ ~nv12 /\ ~p010
         THEN "NV12/P010 textures aren't active"
    ELSE IF c = "AVC" /\ ~nv12 THEN "NV12 textures aren't active"
    ELSE IF fmt \notin {"I010", "P010"} /\ cs \in {"2100_PQ", "2100_HLG"}
         THEN "OBS does not support 8-bit output of Rec. 2100"
    ELSE IF ~Supports(CapsAfterLookup(tbl, adapter)[adapter], c)
         THEN "Wrong adapter"
    ELSE "none"

\* Whether check_texture_encode_capability reaches its caps[ovi.adapter] test.
ReachesCapsLookup(c, scaling, nv12, p010, fmt, cs) ==
    /\ ~scaling
    /\ IF c = "AVC" THEN nv12 ELSE (nv12 \/ p010)
    /\ ~(fmt \notin {"I010", "P010"} /\ cs \in {"2100_PQ", "2100_HLG"})

(***************************************************************************)
(* The construction of a texture context on Linux and its destructor: what *)
(* each step initialises and what ~amf_texencode calls.                    *)
(***************************************************************************)

Throw(k, m) == [kind |-> k, msg |-> m]

\* A step of the construction: the call, what it initialises when it
\* succeeds, and what it throws when it fails.
CtxStep(c, g, x) == [call |-> c, gives |-> g, fails |-> x]

\* GET_PROC_VK / GET_PROC_GL, in source order.
EntryPointNames ==
    <<"vkGetMemoryFdKHR", "vkGetSemaphoreFdKHR", "glGetError",
      "glCreateMemoryObjectsEXT", "glDeleteMemoryObjectsEXT",
      "glImportMemoryFdEXT", "glIsMemoryObjectEXT",
      "glMemoryObjectParameterivEXT", "glGenTextures", "glDeleteTextures",
      "glBindTexture", "glTexParameteri", "glTexStorageMem2DEXT",
      "glGenSemaphoresEXT", "glDeleteSemaphoresEXT",
      "glImportSemaphoreFdEXT", "glIsSemaphoreEXT", "glWaitSemaphoreEXT",
      "glSignalSemaphoreEXT", "glGenFramebuffers", "glDeleteFramebuffers",
      "glBindFramebuffer", "glFramebufferTexture2D", "glBlitFramebuffer">>

GetProcSteps ==
    [i \in DOMAIN EntryPointNames |->
        CtxStep("GET_PROC", {EntryPointNames[i]},
                Throw("cstr", "Failed to resolve"))]

\* amf_create_encoder from CreateContext on, with amf_texencode::init
\* inlined, then AMFComponent::Init of amf_*_create_internal.
ConstructionSteps ==
    <<CtxStep("CreateContext", {"amf_context", "amf_context1"},
              Throw("amf_error", "CreateContext failed")),
      CtxStep("make_unique<AMFVulkanDevice>", {"vk"}, NoException),
      CtxStep("vkCreateInstance", {"hInstance"},
              Throw("cstr", "Vulkan error")),
      CtxStep("vkEnumeratePhysicalDevices", {},
              Throw("cstr", "Vulkan error")),
      CtxStep("VK_DRIVER_ID_AMD_PROPRIETARY", {"hPhysicalDevice"},
              Throw("cstr", "Failed to find Vulkan device")),
      CtxStep("vkEnumerateDeviceExtensionProperties", {},
              Throw("cstr", "Vulkan error")),
      CtxStep("vkCreateDevice", {"hDevice"}, Throw("cstr", "Vulkan error")),
      CtxStep("InitVulkan", {"InitVulkan"},
              Throw("amf_error", "InitVulkan failed")),
      CtxStep("vkCreateCommandPool", {"cmdpool"},
              Throw("cstr", "Vulkan error")),
      CtxStep("vkAllocateCommandBuffers", {"cmdbuf"},
              Throw("cstr", "Vulkan error"))>>
    \o GetProcSteps \o
    <<CtxStep("CreateComponent", {"amf_encoder"},
              Throw("amf_error", "CreateComponent failed")),
      CtxStep("AMFComponent::Init", {"Init"},
              Throw("amf_error", "AMFComponent::Init failed"))>>

\* What the steps before step f initialised (all of them when f is 0).
Initialised(f) ==
    UNION {ConstructionSteps[i].gives :
              i \in 1..(IF f = 0 THEN Len(ConstructionSteps) ELSE f - 1)}

\* A call of the destructor: the member it is made on or frees (with its
\* index in the container), and the members that have to be initialised for
\* the call to be defined.
DtorCall(o, a, n) == [op |-> o, arg |-> a, needs |-> n]

RECURSIVE FreeInputTextures(_)
\* for (auto t : input_textures) { vkFreeMemory; vkDestroyImage; delete }
FreeInputTextures(ts) ==
    IF ts = <<>> THEN <<>>
    ELSE <<DtorCall("vkFreeMemory", <<"input_textures", Head(ts)>>, {"hDevice"}),
           DtorCall("vkDestroyImage", <<"input_textures", Head(ts)>>, {"hDevice"})>>
         \o FreeInputTextures(Tail(ts))

\* The bridge planes, semaphores, fence and read framebuffers.
FreeBridge ==
    <<DtorCall("vkFreeMemory", <<"gltex.planes", 0>>, {"hDevice"}),
      DtorCall("vkDestroyImage", <<"gltex.planes", 0>>, {"hDevice"}),
      DtorCall("glDeleteMemoryObjectsEXT", <<"gltex.planes", 0>>,
               {"glDeleteMemoryObjectsEXT"}),
      DtorCall("glDeleteTextures", <<"gltex.planes", 0>>, {"glDeleteTextures"}),
      DtorCall("glDeleteFramebuffers", <<"gltex.planes", 0>>,
               {"glDeleteFramebuffers"}),
      DtorCall("vkFreeMemory", <<"gltex.planes", 1>>, {"hDevice"}),
      DtorCall("vkDestroyImage", <<"gltex.planes", 1>>, {"hDevice"}),
      DtorCall("glDeleteMemoryObjectsEXT", <<"gltex.planes", 1>>,
               {"glDeleteMemoryObjectsEXT"}),
      DtorCall("glDeleteTextures", <<"gltex.planes", 1>>, {"glDeleteTextures"}),
      DtorCall("glDeleteFramebuffers", <<"gltex.planes", 1>>,
               {"glDeleteFramebuffers"}),
      DtorCall("vkDestroySemaphore", <<"sem", 0>>, {"hDevice"}),
      DtorCall("vkDestroySemaphore", <<"copySem", 0>>, {"hDevice"}),
      DtorCall("vkDestroyFence", <<"copyFence", 0>>, {"hDevice"}),
      DtorCall("glDeleteSemaphoresEXT", <<"glsem", 0>>, {"glDeleteSemaphoresEXT"}),
      DtorCall("glDeleteSemaphoresEXT", <<"glCopySem", 0>>,
               {"glDeleteSemaphoresEXT"})>>

\* ~amf_texencode (__linux): the calls it makes, in order.
amf_texencode_dtor(has_vk, ts) ==
    <<DtorCall("os_atomic_set_bool", <<"destroying", 0>>, {})>>
    \o (IF ~has_vk THEN <<>>
        ELSE <<DtorCall("vkDeviceWaitIdle", <<"hDevice", 0>>, {"hDevice"}),
               DtorCall("vkFreeCommandBuffers", <<"cmdbuf", 0>>,
                        {"hDevice", "cmdpool"}),
               DtorCall("vkDestroyCommandPool", <<"cmdpool", 0>>, {"hDevice"})>>
             \o FreeInputTextures(ts)
             \o FreeBridge
             \o <<DtorCall("Terminate", <<"amf_encoder", 0>>, {"amf_encoder"}),
                  DtorCall("Terminate", <<"amf_context1", 0>>, {"amf_context1"}),
                  DtorCall("Terminate", <<"amf_context", 0>>, {"amf_context"}),
                  DtorCall("vkDestroyDevice", <<"hDevice", 0>>, {}),
                  DtorCall("vkDestroyInstance", <<"hInstance", 0>>, {})>>)

\* The destructor's calls on or with a member that was never initialised.
UndefinedCalls(log, have) ==
    {i \in DOMAIN log : ~(log[i].needs \subseteq have)}

\* The steps after the capability check at which the platform or the vendor
\* SDK can fail.
VendorFailures(pf) ==
    {"none", "CreateContext", "init_amf", "CreateComponent", "Init"}
        \cup (IF pf = "win32" THEN {"d3d11"} ELSE {"init_vk"})

\* amf_create_encoder: TRUE, FALSE (an amf_error caught inside), or the
\* const char * that enc->init() throws through it (VK_CHECK, GET_PROC_*).
amf_create_encoder(fail) ==
    IF fail \in {"CreateContext", "init_amf", "CreateComponent"} THEN "false"
    ELSE IF fail = "init_vk" THEN "cstr"
    ELSE "true"

\* amf_*_create_internal: the exception that leaves it, or "none".
amf_create_internal(fail) ==
    IF amf_create_encoder(fail) = "false" THEN "cstr"
    ELSE IF amf_create_encoder(fail) = "cstr" THEN "cstr"
    ELSE IF fail = "Init" THEN "amf_error"
    ELSE "none"

\* The try block of amf_*_create_texencode: the exception thrown, or "none".
TexencodeBody(c, pf, capmsg, fail) ==
    IF capmsg # "none" THEN "cstr"
    ELSE IF pf = "win32" /\ fail = "d3d11" THEN "cstr"
    ELSE amf_create_internal(fail)

Rerouted(id) == [kind |-> "rerouted", id |-> id]
OwnInstance(id) == [kind |-> "texencode", id |-> id]

amf_avc_create_texencode(pf, capmsg, fail) ==
    LET ex == TexencodeBody("AVC", pf, capmsg, fail)
    IN IF ex = "amf_error" THEN Rerouted("h264_fallback_amf")
       ELSE IF ex = "cstr" THEN Rerouted("h264_fallback_amf")
       ELSE OwnInstance("h264_texture_amf")

\* An HEVC create whose amf_error handler names the AVC fallback.
amf_hevc_create_texencode_wrong_id(pf, capmsg, fail) ==
    LET ex == TexencodeBody("HEVC", pf, capmsg, fail)
    IN IF ex = "amf_error" THEN Rerouted("h264_fallback_amf")
       ELSE IF ex = "cstr" THEN Rerouted("h265_fallback_amf")
       ELSE OwnInstance("h265_texture_amf")

amf_hevc_create_texencode(pf, capmsg, fail) ==
    LET ex == TexencodeBody("HEVC", pf, capmsg, fail)
    IN IF ex = "amf_error" THEN Rerouted("h265_fallback_amf")
       ELSE IF ex = "cstr" THEN Rerouted("h265_fallback_amf")
       ELSE OwnInstance("h265_texture_amf")

amf_av1_create_texencode(pf, capmsg, fail) ==
    LET ex == TexencodeBody("AV1", pf, capmsg, fail)
    IN IF ex = "amf_error" THEN Rerouted("av1_fallback_amf")
       ELSE IF ex = "cstr" THEN Rerouted("av1_fallback_amf")
       ELSE OwnInstance("av1_texture_amf")

\* The create callback registered for the codec's texture encoder ID.
create_texencode(c, pf, capmsg, fail) ==
    CASE c = "AVC"  -> amf_avc_create_texencode(pf, capmsg, fail)
      [] c = "HEVC" -> amf_hevc_create_texencode(pf, capmsg, fail)
      [] OTHER      -> amf_av1_create_texencode(pf, capmsg, fail)

\* After a successful amf_load that registered the codec's encoders.
InitCreate ==
    /\ codec \in Codecs
    /\ platform \in Platforms
    /\ caps \in CapsTables
    /\ Registered(caps, codec)
    /\ ovi_adapter \in 0..MaxAdapters
    /\ scaling_enabled \in BOOLEAN
    /\ nv12_tex_active \in BOOLEAN
    /\ p010_tex_active \in BOOLEAN
    /\ voi_format \in VideoFormats
    /\ voi_colorspace \in Colorspaces
    /\ create_fail = "none"
    /\ create_result = [kind |-> "none", id |-> ""]
    /\ create_pc = "start"
    /\ last_error = "none"
    /\ sdk_started = FALSE
    /\ IdlePreset
    /\ IdleEnc
    /\ IdleLoad

\* The step of the construction a vendor failure stands for.
FailedStep(fail) ==
    CASE fail = "CreateContext"   -> 1
      [] fail = "init_vk"         -> 3
      [] fail = "init_amf"        -> 8
      [] fail = "CreateComponent" -> Len(ConstructionSteps) - 1
      [] OTHER                    -> Len(ConstructionSteps)

\* The unwinding of a failed creation destroys the amf_texencode the
\* unique_ptr holds; on Linux its destructor may call a member that the
\* construction did not reach.
UnwindUndefined(pf, capmsg, fail) ==
    /\ pf = "linux"
    /\ capmsg = "none"
    /\ fail # "none"
    /\ LET have == Initialised(FailedStep(fail))
       IN  UndefinedCalls(amf_texencode_dtor("vk" \in have, <<>>), have) # {}

\* The process ended inside the create callback.
Crashed == [kind |-> "crashed", id |-> ""]

\* The host creates an encoder by the codec's texture encoder ID.  Undefined
\* behaviour while unwinding either goes unnoticed or ends the process.
CreateTexencode ==
    /\ create_pc = "start"
    /\ \E fail \in VendorFailures(platform), crash \in BOOLEAN :
         LET capmsg == check_texture_encode_capability(
                           codec, scaling_enabled, nv12_tex_active,
                           p010_tex_active, voi_format, voi_colorspace,
                           caps, ovi_adapter)
         IN /\ crash => UnwindUndefined(platform, capmsg, fail)
            /\ create_result' =
                  IF crash THEN Crashed
                  ELSE create_texencode(codec, platform, capmsg, fail)
            /\ create_fail' = IF capmsg # "none" THEN capmsg ELSE fail
    /\ caps' = IF ReachesCapsLookup(codec, scaling_enabled, nv12_tex_active,
                                    p010_tex_active, voi_format,
                                    voi_colorspace)
               THEN CapsAfterLookup(caps, ovi_adapter)
               ELSE caps
    /\ create_pc' = "created"
    /\ sdk_started' =
          (check_texture_encode_capability(
               codec, scaling_enabled, nv12_tex_active, p010_tex_active,
               voi_format, voi_colorspace, caps, ovi_adapter) = "none")
    /\ UNCHANGED <<platform, ovi_adapter, scaling_enabled, nv12_tex_active,
                   p010_tex_active, voi_format, voi_colorspace, last_error>>
    /\ UNCHANGED <<varsPreset, varsEnc, varsLoad, varsPoolLog, varsPacket>>

\* The steps of amf_*_create_internal at which the vendor SDK can fail for a
\* fallback encoder.
FallbackFailures ==
    {"none", "CreateContext", "init_amf", "CreateComponent", "Init"}

\* The format test of amf_*_create_fallback: the text it gives to
\* obs_encoder_set_last_error and throws, or "none".
FallbackFormatCheck(rejects_10bit, fmt, cs) ==
    IF fmt \in {"I010", "P010"}
    THEN (IF rejects_10bit THEN "AMF.10bitUnsupportedAvc" ELSE "none")
    ELSE IF cs \in {"2100_PQ", "2100_HLG"} THEN "AMF.8bitUnsupportedHdr"
    ELSE "none"

\* amf_*_create_fallback after its format test said text.
FallbackBody(id, text, fail) ==
    IF text # "none"
    THEN [result |-> [kind |-> "null", id |-> ""], last_error |-> text,
          sdk_started |-> FALSE]
    ELSE [result |-> IF amf_create_internal(fail) = "none"
                     THEN [kind |-> "fallback", id |-> id]
                     ELSE [kind |-> "null", id |-> ""],
          last_error |-> "none", sdk_started |-> TRUE]

amf_avc_create_fallback(fmt, cs, fail) ==
    FallbackBody("h264_fallback_amf", FallbackFormatCheck(TRUE, fmt, cs), fail)

\* Mutant: the HEVC fallback rejects a 10-bit source as the AVC one does.
amf_hevc_create_fallback_rejects_10bit(fmt, cs, fail) ==
    FallbackBody("h265_fallback_amf", FallbackFormatCheck(TRUE, fmt, cs), fail)

amf_hevc_create_fallback(fmt, cs, fail) ==
    FallbackBody("h265_fallback_amf", FallbackFormatCheck(FALSE, fmt, cs), fail)

amf_av1_create_fallback(fmt, cs, fail) ==
    FallbackBody("av1_fallback_amf", FallbackFormatCheck(FALSE, fmt, cs), fail)

\* The create callback registered for the codec's fallback encoder ID.
create_fallback(c, fmt, cs, fail) ==
    CASE c = "AVC"  -> amf_avc_create_fallback(fmt, cs, fail)
      [] c = "HEVC" -> amf_hevc_create_fallback(fmt, cs, fail)
      [] OTHER      -> amf_av1_create_fallback(fmt, cs, fail)

\* The host creates an encoder by the codec's fallback encoder ID.
CreateFallback ==
    /\ create_pc = "start"
    /\ \E fail \in FallbackFailures :
         LET r == create_fallback(codec, voi_format, voi_colorspace, fail)
         IN /\ create_result' = r.result
            /\ last_error' = r.last_error
            /\ sdk_started' = r.sdk_started
            /\ create_fail' = IF r.sdk_started THEN fail ELSE r.last_error
    /\ create_pc' = "fallback_created"
    /\ UNCHANGED <<platform, caps, ovi_adapter, scaling_enabled,
                   nv12_tex_active, p010_tex_active, voi_format,
                   voi_colorspace>>
    /\ UNCHANGED <<varsPreset, varsEnc, varsLoad, varsPoolLog, varsPacket>>

NextCreate == CreateTexencode \/ CreateFallback

SpecCreate == InitCreate /\ [][NextCreate]_vars

(***************************************************************************)
(* Preset mapping                                                          *)
(***************************************************************************)

get_avc_preset(p) ==
    IF astrcmpi(p, "quality") THEN "AVC_QUALITY"
    ELSE IF astrcmpi(p, "speed") THEN "AVC_SPEED"
    ELSE "AVC_BALANCED"

get_hevc_preset(p) ==
    IF astrcmpi(p, "balanced") THEN "HEVC_BALANCED"
    ELSE IF astrcmpi(p, "speed") THEN "HEVC_SPEED"
    ELSE "HEVC_QUALITY"

get_av1_preset(p) ==
    IF astrcmpi(p, "highquality") THEN "AV1_HIGH_QUALITY"
    ELSE IF astrcmpi(p, "quality") THEN "AV1_QUALITY"
    ELSE IF astrcmpi(p, "balanced") THEN "AV1_BALANCED"
    ELSE IF astrcmpi(p, "speed") THEN "AV1_SPEED"
    ELSE "AV1_BALANCED"

get_preset(c, p) ==
    IF c = "AVC" THEN get_avc_preset(p)
    ELSE IF c = "HEVC" THEN get_hevc_preset(p)
    ELSE get_av1_preset(p)

\* set_opt(QUALITY_PRESET, v): the property name is the codec's own.
SetQualityPreset(c, v) == [name |-> <<c, "QUALITY_PRESET">>, value |-> v]

(***************************************************************************)
(* Throughput-based preset downgrade                                       *)
(***************************************************************************)

\* Largest throughput value of the model (macroblocks per second, scaled).
MaxThroughput == 3

\* What a re-query of CAP_MAX_THROUGHPUT can answer: ok = FALSE when GetCaps
\* or GetProperty fails (max_throughput keeps its value), else the ceiling
\* the device reports for the preset just applied.
CapsAnswers ==
    {[ok |-> FALSE, value |-> 0]} \cup
    {[ok |-> TRUE, value |-> v] : v \in 0..MaxThroughput}

\* The part of amf_base that check_preset_compatibility reads and writes.
CfgState(c, p, m, t, ps, cs) ==
    [codec |-> c, preset |-> p, max_throughput |-> m, throughput |-> t,
     props |-> ps, caps_seen |-> cs]

\* preset = p; set_opt(QUALITY_PRESET, get_preset(enc, preset));
SetPreset(st, p) ==
    [st EXCEPT !.preset = p,
               !.props = Append(@, SetQualityPreset(st.codec,
                                                    get_preset(st.codec, p)))]

\* preset = p; refresh_throughput_caps(enc, preset);
refresh_throughput_caps(st, p, answer) ==
    [SetPreset(st, p) EXCEPT
        !.max_throughput = IF answer.ok THEN answer.value ELSE @,
        !.caps_seen = Append(@, answer)]

\* if (astrcmpi(preset, "highQuality") == 0) { ... }
HighQualityTier(st, answer) ==
    IF astrcmpi(st.preset, "highQuality")
    THEN IF st.max_throughput = 0
         THEN SetPreset(st, "quality")
         ELSE IF st.max_throughput < st.throughput
              THEN refresh_throughput_caps(st, "quality", answer)
              ELSE st
    ELSE st

\* A quality tier that tests only a known ceiling, as the balanced tier does.
QualityTierKnownOnly(st, answer) ==
    IF astrcmpi(st.preset, "quality")
    THEN IF st.max_throughput # 0 /\ st.max_throughput < st.throughput
         THEN refresh_throughput_caps(st, "balanced", answer)
         ELSE st
    ELSE st

\* if (astrcmpi(preset, "quality") == 0) { ... }
QualityTier(st, answer) ==
    IF astrcmpi(st.preset, "quality")
    THEN IF st.max_throughput = 0
         THEN SetPreset(st, "balanced")
         ELSE IF st.max_throughput < st.throughput
              THEN refresh_throughput_caps(st, "balanced", answer)
              ELSE st
    ELSE st

\* A balanced tier that never drops to "speed".
BalancedTierNoDrop(st, answer) == st

\* A balanced tier that drops to "quality": an upgrade.
BalancedTierUpgrades(st, answer) ==
    IF astrcmpi(st.preset, "balanced")
    THEN IF st.max_throughput # 0 /\ st.max_throughput < st.throughput
         THEN refresh_throughput_caps(st, "quality", answer)
         ELSE st
    ELSE st

\* if (astrcmpi(preset, "balanced") == 0) { ... }
BalancedTier(st, answer) ==
    IF astrcmpi(st.preset, "balanced")
    THEN IF st.max_throughput # 0 /\ st.max_throughput < st.throughput
         THEN refresh_throughput_caps(st, "speed", answer)
         ELSE st
    ELSE st

check_preset_compatibility(st, a1, a2, a3) ==
    BalancedTier(QualityTier(HighQualityTier(st, a1), a2), a3)

InitPreset ==
    /\ codec \in Codecs
    /\ preset \in PresetStrings
    /\ max_throughput \in 0..MaxThroughput
    /\ throughput \in 0..MaxThroughput
    /\ props = <<>>
    /\ caps_seen = <<>>
    /\ preset_in = preset
    /\ max_in = max_throughput
    /\ cfg_pc = "start"
    /\ settings = NoSettings
    /\ ovi = NoVideo
    /\ IdleCreate
    /\ IdleEnc
    /\ IdleLoad

CheckPresetCompatibility ==
    /\ cfg_pc = "start"
    /\ \E a1, a2, a3 \in CapsAnswers :
         LET out == check_preset_compatibility(
                        CfgState(codec, preset, max_throughput, throughput,
                                 props, caps_seen), a1, a2, a3)
         IN /\ preset' = out.preset
            /\ max_throughput' = out.max_throughput
            /\ props' = out.props
            /\ caps_seen' = out.caps_seen
    /\ cfg_pc' = "checked"
    /\ UNCHANGED <<codec, throughput, preset_in, max_in, settings, ovi>>
    /\ UNCHANGED <<varsCreate, varsEnc, varsLoad, varsPoolLog, varsPacket>>

NextPreset == CheckPresetCompatibility

SpecPreset == InitPreset /\ [][NextPreset]_vars

(***************************************************************************)
(* Claims about the preset downgrade (checked under SpecPreset)            *)
(***************************************************************************)

\* The order highQuality > quality > balanced > speed.
PresetRank(p) ==
    CASE ToLower(p) = "highquality" -> 3
      [] ToLower(p) = "quality"     -> 2
      [] ToLower(p) = "balanced"    -> 1
      [] ToLower(p) = "speed"       -> 0
      [] OTHER                      -> -1

PresetOfRank(r) ==
    CASE r = 3 -> "highQuality"
      [] r = 2 -> "quality"
      [] r = 1 -> "balanced"
      [] OTHER -> "speed"

SchemaPreset(p) == PresetRank(p) >= 0

Checked == cfg_pc = "checked"

\* The QUALITY_PRESET writes of a cascade from rank `from` down to rank `to`.
DropWrites(c, from, to) ==
    [i \in 1..(from - to) |->
        SetQualityPreset(c, get_preset(c, PresetOfRank(from - i)))]

\* C8 as stated: entered at "highQuality" with an unknown ceiling (0), the
\* resolved preset is exactly "quality".
C8_Original ==
    (Checked /\ astrcmpi(preset_in, "highQuality") /\ max_in = 0)
        => preset = "quality"

\* C8 amended: entered at "highQuality" with an unknown ceiling (0), the
\* resolved preset is exactly "balanced": the unknown ceiling is tested again
\* at the "quality" tier and drops the preset once more (two QUALITY_PRESET
\* writes, no re-query of the ceiling), and it is not used to drop to "speed".
C8_UnknownCeilingEndsAtBalanced ==
    (Checked /\ astrcmpi(preset_in, "highQuality") /\ max_in = 0)
        => /\ preset = "balanced"
           /\ props = DropWrites(codec, 3, 1)
           /\ caps_seen = <<>>
           /\ max_throughput = 0

C8_Witness ==
    /\ Checked
    /\ preset_in = "highQuality"
    /\ max_in = 0
    /\ Len(props) = 2

\* Every ceiling that was used or queried is known and below the required
\* throughput.
CeilingAlwaysBelow ==
    /\ max_in # 0
    /\ max_in < throughput
    /\ \A i \in 1..Len(caps_seen) :
          caps_seen[i].ok =>
              caps_seen[i].value # 0 /\ caps_seen[i].value < throughput

\* C9: with a ceiling known and below the required throughput at every
\* preset queried, a check started at "highQuality" writes quality, balanced,
\* speed in that order (so neither "highQuality" nor "quality" is set again
\* once left) and ends at "speed".
C9_CascadeEndsAtSpeed ==
    (Checked /\ astrcmpi(preset_in, "highQuality") /\ CeilingAlwaysBelow)
        => /\ preset = "speed"
           /\ props = DropWrites(codec, 3, 0)
           /\ Len(caps_seen) = 3

C9_Witness ==
    /\ Checked
    /\ preset_in = "highQuality"
    /\ CeilingAlwaysBelow
    /\ preset = "speed"
    /\ \E i \in 1..Len(caps_seen) :
          caps_seen[i].ok /\ caps_seen[i].value # max_in

\* C10: from every schema preset, with every ceiling and every required
\* throughput, the resolved preset is the starting one or a lower one; the
\* QUALITY_PRESET writes are exactly one per drop, each for the preset
\* dropped to; and with a ceiling known and not below the required
\* throughput the preset is left as it was and nothing is written.
C10_NeverUpgrades ==
    (Checked /\ SchemaPreset(preset_in))
        => /\ SchemaPreset(preset)
           /\ PresetRank(preset) <= PresetRank(preset_in)
           /\ props = DropWrites(codec, PresetRank(preset_in),
                                 PresetRank(preset))
           /\ (max_in # 0 /\ max_in >= throughput)
                 => (preset = preset_in /\ props = <<>>)
           /\ (PresetRank(preset) = PresetRank(preset_in))
                 => preset = preset_in

C10_Witness ==
    /\ Checked
    /\ preset_in = "Quality"
    /\ preset = "speed"
    /\ Len(props) = 2

(***************************************************************************)
(* Claims about creation (checked under SpecCreate)                        *)
(***************************************************************************)

\* The fallback encoder ID paired with each codec's texture encoder ID.
FallbackIdOf(c) ==
    CASE c = "AVC"  -> "h264_fallback_amf"
      [] c = "HEVC" -> "h265_fallback_amf"
      [] OTHER      -> "av1_fallback_amf"

Created == create_pc = "created"

\* C3: whenever texture-path creation fails at any step (capability check,
\* D3D11 or Vulkan device initialisation, amf_create_encoder, component
\* Init), the create callback returns the result of creating the fallback
\* encoder ID of the same codec; it returns its own instance only when no
\* step failed.
C3_FailureReroutesToSameCodec ==
    Created =>
        /\ (create_fail # "none")
              => create_result = [kind |-> "rerouted", id |-> FallbackIdOf(codec)]
        /\ (create_fail = "none") => create_result.kind = "texencode"

C3_Witness ==
    /\ Created
    /\ codec = "HEVC"
    /\ create_fail = "Init"
    /\ create_result.kind = "rerouted"

\* C11: once amf_load has returned no operation adds, removes or changes an
\* entry of the adapter-capability table; creating a texture encoder leaves
\* it as it was.
C11_TableReadOnlyAfterLoad == [][caps' = caps]_vars

TenBit == {"I010", "P010"}

Rec2100 == {"2100_PQ", "2100_HLG"}

FallbackCreated == create_pc = "fallback_created"

\* C14: fallback creation returns null with the host's last error set, and
\* without entering the SDK, for AVC with a 10-bit source and for any codec
\* with an 8-bit source in a Rec. 2100 colorspace; HEVC and AV1 pass a
\* 10-bit source on to the SDK.
C14_FallbackFormatRejection ==
    FallbackCreated =>
        /\ ((codec = "AVC" /\ voi_format \in TenBit)
               \/ (voi_format \notin TenBit /\ voi_colorspace \in Rec2100))
              => /\ create_result.kind = "null"
                 /\ last_error # "none"
                 /\ ~sdk_started
        /\ (codec # "AVC" /\ voi_format \in TenBit)
              => (last_error = "none" /\ sdk_started)

\* An AVC fallback encoder asked for with a P010 source.
C14_Witness ==
    /\ FallbackCreated
    /\ codec = "AVC"
    /\ voi_format = "P010"
    /\ create_result.kind = "null"
    /\ last_error = "AMF.10bitUnsupportedAvc"

(***************************************************************************)
(* Run time: the per-frame entry points, amf_encode_base, the texture or   *)
(* buffer pool, the surface-release callback and the destructor.           *)
(***************************************************************************)

\* ---- the fallback path's format policy, buffer size and frame copy

\* The video_format values a source can have.
SourceFormats ==
    {"NONE", "I420", "NV12", "YVYU", "YUY2", "UYVY", "RGBA", "BGRA", "BGRX",
     "Y800", "I444", "BGR3", "I422", "I40A", "I42A", "YUVA", "AYUV", "I010",
     "P010", "I210", "I412", "YA2L", "P216", "P416", "V210", "R10L"}

\* Mutant: the default branch leaves the format as it is.
h264_video_info_fallback_keeps_default(f) ==
    IF f \in {"RGBA", "BGRA", "BGRX"} THEN "RGBA" ELSE f

h264_video_info_fallback(f) ==
    IF f \in {"RGBA", "BGRA", "BGRX"} THEN "RGBA" ELSE "NV12"

h265_video_info_fallback(f) ==
    IF f \in {"RGBA", "BGRA", "BGRX"} THEN "RGBA"
    ELSE IF f \in {"I010", "P010"} THEN "P010"
    ELSE "NV12"

av1_video_info_fallback(f) ==
    IF f \in {"RGBA", "BGRA", "BGRX"} THEN "RGBA"
    ELSE IF f \in {"I010", "P010"} THEN "P010"
    ELSE "NV12"

\* amf_create_encoder: if (enc->fallback) the codec's policy is applied.
video_info_fallback(c, f) ==
    CASE c = "AVC"  -> h264_video_info_fallback(f)
      [] c = "HEVC" -> h265_video_info_fallback(f)
      [] OTHER      -> av1_video_info_fallback(f)

\* switch (info.format): amf_format is assigned for three formats and left
\* as it was for every other.
SurfaceFormatOf(f, before) ==
    IF f \in {"NV12", "P010", "RGBA"} THEN f ELSE before

\* Mutant: an NV12 buffer of one plane.
alloc_buf_luma_only(fmt, linesize, cy) ==
    CASE fmt = "NV12" -> [size |-> linesize * cy, exc |-> NoException]
      [] fmt = "RGBA" -> [size |-> linesize * cy * 4, exc |-> NoException]
      [] fmt = "P010" -> [size |-> linesize * cy * 2 * 2, exc |-> NoException]
      [] OTHER        -> [size |-> 0,
                          exc |-> Throw("cstr", "Invalid amf_format")]

\* alloc_buf: the size of the new buffer, or the exception.
alloc_buf(fmt, linesize, cy) ==
    CASE fmt = "NV12" -> [size |-> linesize * cy * 2, exc |-> NoException]
      [] fmt = "RGBA" -> [size |-> linesize * cy * 4, exc |-> NoException]
      [] fmt = "P010" -> [size |-> linesize * cy * 2 * 2, exc |-> NoException]
      [] OTHER        -> [size |-> 0,
                          exc |-> Throw("cstr", "Invalid amf_format")]

\* copy_frame_data: one past the last byte of the buffer the memcpy calls
\* write.
copy_frame_data(fmt, linesize, cy) ==
    IF fmt \in {"NV12", "P010"}
    THEN linesize * cy + (linesize * cy) \div 2
    ELSE IF fmt = "RGBA" THEN linesize * cy
    ELSE 0

Instances == {"texencode", "fallback"}

MaxCalls == 2

\* timeout (5 * SEC_TO_NSEC) and the length of one os_sleep_ms(1), in ticks.
TimeoutTicks == 3

MaxSleepTicks == 2

\* The per-frame callbacks registered for an instance.
EntryPoints(i, pf) ==
    IF i = "fallback" THEN {"amf_encode_fallback"}
    ELSE IF pf = "win32" THEN {"amf_encode_tex"}
    ELSE {"amf_encode_tex", "amf_encode_tex2"}

\* amf_encode_tex outside _WIN32 is a stub.
IsStub(e, pf) == e = "amf_encode_tex" /\ pf # "win32"

Last(q) == q[Len(q)]

Front(q) == SubSeq(q, 1, Len(q) - 1)

IsPrefix(p, q) == Len(p) <= Len(q) /\ p = SubSeq(q, 1, Len(p))

\* The address of a newly allocated texture or buffer.
NewTex == CHOOSE t \in 1..(Cardinality(allocated) + 1) :
              /\ t \notin allocated
              /\ \A u \in 1..(t - 1) : u \in allocated

InPool(t) == \E i \in 1..Len(available_textures) : available_textures[i] = t

InActive(t) == \E p \in active_textures : p[2] = t

\* Mutant: the timeout test is strict.
TimedOutStrictly(d) == d > TimeoutTicks

\* duration >= timeout
TimedOut(d) == d >= TimeoutTicks

\* Mutant: the newest output is taken.
queue_pop_back(q) == [out |-> Last(q), rest |-> Front(q)]

\* amf_out = queued_packets.front(); queued_packets.pop_front();
queue_pop(q) == [out |-> Head(q), rest |-> Tail(q)]

\* The catch clauses of the entry point e for the exception x; rp is
\* *received_packet when the clause is entered.
CatchClauses(e, x, rp) ==
    IF x.kind = "none" THEN [ret |-> "true", received |-> rp]
    ELSE IF e = "amf_encode_tex" /\ x.kind = "cstr"
    THEN [ret |-> "false", received |-> rp]
    ELSE [ret |-> "false", received |-> FALSE]

\* Mutant: the notification leaves the map entry in place.
OnSurfaceDataReleaseKeepsEntry(pool, active, surf) ==
    LET hit == {p \in active : p[1] = surf}
    IN  IF hit = {} THEN [pool |-> pool, active |-> active]
        ELSE [pool   |-> Append(pool, (CHOOSE p \in hit : TRUE)[2]),
              active |-> active]

\* The body of OnSurfaceDataRelease under the lock.
OnSurfaceDataRelease(pool, active, surf) ==
    LET hit == {p \in active : p[1] = surf}
    IN  IF hit = {} THEN [pool |-> pool, active |-> active]
        ELSE [pool   |-> Append(pool, (CHOOSE p \in hit : TRUE)[2]),
              active |-> active \ hit]

\* active_textures[amf_surf.GetPtr()] = output_tex
ActiveAssign(active, surf, t) ==
    {p \in active : p[1] # surf} \cup {<<surf, t>>}

\* The variables of the other specifications.
varsOther == <<varsPreset, varsCreate, varsLoad, varsPoolLog, varsPacket>>

InitEnc ==
    /\ inst \in Instances
    /\ FreshInstance

\* The host calls a per-frame entry point.
Call ==
    /\ pc = "idle"
    /\ d_pc = "alive"
    /\ calls < MaxCalls
    /\ \E e \in EntryPoints(inst, platform), bad \in BOOLEAN, rp \in BOOLEAN :
          /\ e = "amf_encode_fallback" => ~bad
          /\ entry' = e
          /\ bad_input' = bad
          /\ rp_in' = rp
          /\ received_packet' = rp
    /\ calls' = calls + 1
    /\ ret' = "none"
    /\ exc' = NoException
    /\ output_tex' = 0
    /\ amf_surf' = 0
    /\ waiting' = FALSE
    /\ elapsed' = 0
    /\ prev_elapsed' = 0
    /\ attempts' = 0
    /\ all_full' = TRUE
    /\ delivered_in_call' = 0
    /\ pc' = "entry"
    /\ UNCHANGED <<varsOther, inst, varsEncoder, varsPool, varsCallback, varsDestroy>>

\* The entry point up to get_output_tex / get_buf.
Enter ==
    /\ pc = "entry"
    /\ IF IsStub(entry, platform)
       THEN /\ ret' = "false"
            /\ pc' = "idle"
            /\ exc' = exc
       ELSE IF bad_input
       THEN /\ exc' = Throw("cstr", "Encode failed: bad texture handle")
            /\ pc' = "unwind"
            /\ ret' = ret
       ELSE IF entry = "amf_encode_tex"
       THEN \E o \in {"ok", "HRError", "cstr"} :
               /\ exc' = CASE o = "HRError" ->
                                Throw("HRError", "OpenSharedResource failed")
                           [] o = "cstr" ->
                                Throw("cstr",
                                      "QueryInterface(IDXGIKeyedMutex) failed")
                           [] OTHER -> exc
               /\ pc' = IF o = "ok" THEN "pool_lock" ELSE "unwind"
               /\ ret' = ret
       ELSE /\ pc' = "pool_lock"
            /\ UNCHANGED <<exc, ret>>
    /\ UNCHANGED <<varsOther, inst, entry, bad_input, rp_in, received_packet, output_tex,
                   amf_surf, waiting, elapsed, prev_elapsed, attempts,
                   all_full, calls, delivered_in_call, varsEncoder, varsPool,
                   varsCallback, varsDestroy>>

\* Mutant: get_available_tex / get_buf goes on without the lock.
PoolLockNotTaken ==
    /\ pc = "pool_lock"
    /\ pc' = "pool_take"
    /\ UNCHANGED <<varsOther, inst, varsCall, varsEncoder, varsPool,
                   varsCallback, varsDestroy>>

\* std::scoped_lock lock(textures_mutex) in get_available_tex / get_buf.
PoolLock ==
    /\ pc = "pool_lock"
    /\ textures_mutex = "free"
    /\ textures_mutex' = "encode"
    /\ pc' = "pool_take"
    /\ UNCHANGED <<varsOther, inst, varsCall, varsEncoder, allocated, available_textures,
                   active_textures, unlocked_access, varsCallback,
                   varsDestroy>>

\* The body of get_available_tex / get_buf, then the lock's release.
PoolTake ==
    /\ pc = "pool_take"
    /\ unlocked_access' = (unlocked_access \/ textures_mutex # "encode")
    /\ textures_mutex' = IF textures_mutex = "encode" THEN "free"
                         ELSE textures_mutex
    /\ IF available_textures # <<>>
       THEN /\ output_tex' = Last(available_textures)
            /\ available_textures' = Front(available_textures)
            /\ pc' = "prepare"
            /\ UNCHANGED <<allocated, exc>>
       ELSE IF inst = "fallback"
       THEN \E f \in SourceFormats :
               LET fmt == SurfaceFormatOf(video_info_fallback(codec, f),
                                          "unset")
                   ok == alloc_buf(fmt, 1, 1).exc = NoException
               IN  /\ output_tex' = IF ok THEN NewTex ELSE 0
                   /\ allocated' = IF ok THEN allocated \cup {NewTex}
                                   ELSE allocated
                   /\ exc' = IF ok THEN exc
                             ELSE Throw("cstr", "Invalid amf_format")
                   /\ pc' = IF ok THEN "prepare" ELSE "unwind"
                   /\ UNCHANGED available_textures
       ELSE /\ pc' = "add_output_tex"
            /\ UNCHANGED <<output_tex, available_textures, allocated, exc>>
    /\ UNCHANGED <<varsOther, inst, entry, bad_input, rp_in, received_packet, ret,
                   amf_surf, waiting, elapsed, prev_elapsed, attempts,
                   all_full, calls, delivered_in_call, varsEncoder,
                   active_textures, varsCallback, varsDestroy>>

\* add_output_tex: a new output texture when the pool was empty.
AddOutputTex ==
    /\ pc = "add_output_tex"
    /\ \E ok \in BOOLEAN :
          /\ output_tex' = IF ok THEN NewTex ELSE 0
          /\ allocated' = IF ok THEN allocated \cup {NewTex} ELSE allocated
          /\ exc' = IF ok THEN exc
                    ELSE IF platform = "win32"
                    THEN Throw("HRError", "Failed to create texture")
                    ELSE Throw("cstr", "VK_CHECK failed")
          /\ pc' = IF ok THEN "prepare" ELSE "unwind"
    /\ UNCHANGED <<varsOther, inst, entry, bad_input, rp_in, received_packet, ret,
                   amf_surf, waiting, elapsed, prev_elapsed, attempts,
                   all_full, calls, delivered_in_call, varsEncoder,
                   available_textures, active_textures, textures_mutex,
                   unlocked_access, varsCallback, varsDestroy>>

\* What the steps between the pool and the active map can do: succeed,
\* throw before the AMF surface exists, fail to create it, or throw after.
PrepareOutcomes(e) ==
    IF e = "amf_encode_tex2" THEN {"ok", "cstr", "amf_error", "cstr_late"}
    ELSE {"ok", "amf_error"}

SurfaceFailure(e) ==
    CASE e = "amf_encode_tex"  -> "CreateSurfaceFromDX11Native failed"
      [] e = "amf_encode_tex2" -> "CreateSurfaceFromVulkanNative failed"
      [] OTHER                 -> "CreateSurfaceFromHostNative failed"

\* Copy into the output texture or buffer and wrap it in an AMF surface:
\* keyed-mutex acquire and copy (D3D11), fence wait, blit and queue submit
\* (Vulkan/GL), copy_frame_data (fallback).
Prepare ==
    /\ pc = "prepare"
    /\ \E o \in PrepareOutcomes(entry) :
          /\ amf_surf' = IF o \in {"ok", "cstr_late"} THEN calls ELSE 0
          /\ exc' = CASE o = "ok" -> exc
                      [] o = "amf_error" ->
                           Throw("amf_error", SurfaceFailure(entry))
                      [] OTHER -> Throw("cstr", "VK_CHECK failed")
          /\ pc' = IF o = "ok" THEN "active_lock" ELSE "unwind"
    /\ UNCHANGED <<varsOther, inst, entry, bad_input, rp_in, received_packet, ret,
                   output_tex, waiting, elapsed, prev_elapsed, attempts,
                   all_full, calls, delivered_in_call, varsEncoder, varsPool,
                   varsCallback, varsDestroy>>

\* std::scoped_lock lock(textures_mutex) before the active-map insert.
ActiveLock ==
    /\ pc = "active_lock"
    /\ textures_mutex = "free"
    /\ textures_mutex' = "encode"
    /\ pc' = "active_insert"
    /\ UNCHANGED <<varsOther, inst, varsCall, varsEncoder, allocated, available_textures,
                   active_textures, unlocked_access, varsCallback,
                   varsDestroy>>

\* active_textures[amf_surf.GetPtr()] = output_tex, then the lock's release.
ActiveInsert ==
    /\ pc = "active_insert"
    /\ unlocked_access' = (unlocked_access \/ textures_mutex # "encode")
    /\ textures_mutex' = IF textures_mutex = "encode" THEN "free"
                         ELSE textures_mutex
    /\ active_textures' = ActiveAssign(active_textures, amf_surf, output_tex)
    /\ pc' = "base"
    /\ UNCHANGED <<varsOther, inst, varsCall, varsEncoder, allocated, available_textures,
                   varsCallback, varsDestroy>>

\* amf_encode_base, up to its loop.
BaseEntry ==
    /\ pc = "base"
    /\ received_packet' = FALSE
    /\ waiting' = TRUE
    /\ elapsed' = 0
    /\ pc' = "submit"
    /\ UNCHANGED <<varsOther, inst, entry, bad_input, rp_in, ret, exc, output_tex,
                   amf_surf, prev_elapsed, attempts, all_full, calls,
                   delivered_in_call, varsEncoder, varsPool, varsCallback,
                   varsDestroy>>

SubmitResults == {"AMF_OK", "AMF_NEED_MORE_INPUT", "AMF_INPUT_FULL", "AMF_FAIL"}

\* One SubmitInput and the branch on its result; after AMF_INPUT_FULL the
\* thread sleeps and measures the time since ts_start.
Submit ==
    /\ pc = "submit"
    /\ attempts' = attempts + 1
    /\ \E res \in SubmitResults :
          /\ all_full' = (all_full /\ res = "AMF_INPUT_FULL")
          /\ CASE res \in {"AMF_OK", "AMF_NEED_MORE_INPUT"} ->
                    /\ waiting' = FALSE
                    /\ enc_held' = enc_held \cup {amf_surf}
                    /\ enc_pending' = enc_pending + 1
                    /\ pc' = "query"
                    /\ UNCHANGED <<elapsed, prev_elapsed, exc>>
               [] res = "AMF_INPUT_FULL" ->
                    \E d \in 1..MaxSleepTicks :
                       /\ prev_elapsed' = elapsed
                       /\ elapsed' = elapsed + d
                       /\ IF TimedOut(elapsed + d)
                          THEN /\ exc' = Throw("amf_error",
                                               "SubmitInput timed out")
                               /\ pc' = "unwind"
                          ELSE /\ exc' = exc
                               /\ pc' = "query"
                       /\ UNCHANGED <<waiting, enc_held, enc_pending>>
               [] OTHER ->
                    /\ exc' = Throw("amf_error", "SubmitInput failed")
                    /\ pc' = "unwind"
                    /\ UNCHANGED <<waiting, enc_held, enc_pending, elapsed,
                                   prev_elapsed>>
    /\ UNCHANGED <<varsOther, inst, entry, bad_input, rp_in, received_packet, ret,
                   output_tex, amf_surf, calls, delivered_in_call,
                   queued_packets, delivered, next_out, varsPool,
                   varsCallback, varsDestroy>>

\* Mutant: the thread submits again after every drain.
AfterDrainResubmits(got_packet, w) ==
    IF got_packet THEN "query" ELSE "submit"

\* } while (!!new_packet); and then the test of while (waiting).
AfterDrain(got_packet, w) ==
    IF got_packet THEN "query"
    ELSE IF w THEN "submit"
    ELSE "deliver"

\* What one QueryOutput can answer: an output or none, and a result code.
QueryAnswers ==
    [packet : BOOLEAN, res : {"AMF_OK", "AMF_REPEAT", "AMF_FAIL"}]

\* One iteration of the do-while around QueryOutput.  The encoder has an
\* output only for a frame it accepted.
Query ==
    /\ pc = "query"
    /\ \E a \in QueryAnswers :
          /\ a.packet => enc_pending > 0
          /\ queued_packets' = IF a.packet
                               THEN Append(queued_packets, next_out)
                               ELSE queued_packets
          /\ next_out' = IF a.packet THEN next_out + 1 ELSE next_out
          /\ enc_pending' = IF a.packet THEN enc_pending - 1 ELSE enc_pending
          /\ IF a.res = "AMF_FAIL"
             THEN /\ exc' = Throw("amf_error", "QueryOutput failed")
                  /\ pc' = "unwind"
             ELSE /\ exc' = exc
                  /\ pc' = AfterDrain(a.packet, waiting)
    /\ UNCHANGED <<varsOther, inst, entry, bad_input, rp_in, received_packet, ret,
                   output_tex, amf_surf, waiting, elapsed, prev_elapsed,
                   attempts, all_full, calls, delivered_in_call, delivered,
                   enc_held, varsPool, varsCallback, varsDestroy>>

\* "return a packet if available": pop, flag, convert_to_encoder_packet.
Deliver ==
    /\ pc = "deliver"
    /\ IF queued_packets # <<>>
       THEN /\ queued_packets' = queue_pop(queued_packets).rest
            /\ received_packet' = TRUE
            /\ \E ok \in BOOLEAN :
                  /\ delivered' = IF ok
                                  THEN Append(delivered,
                                              queue_pop(queued_packets).out)
                                  ELSE delivered
                  /\ delivered_in_call' = IF ok THEN delivered_in_call + 1
                                          ELSE delivered_in_call
                  /\ exc' = IF ok THEN exc
                            ELSE Throw("amf_error", "Failed to GetProperty()")
       ELSE UNCHANGED <<queued_packets, received_packet, delivered,
                        delivered_in_call, exc>>
    /\ pc' = "unwind"
    /\ UNCHANGED <<varsOther, inst, entry, bad_input, rp_in, ret, output_tex, amf_surf,
                   waiting, elapsed, prev_elapsed, attempts, all_full, calls,
                   next_out, enc_pending, enc_held, varsPool, varsCallback,
                   varsDestroy>>

\* Mutant: a call that failed drops the queued outputs as it unwinds.
UnwindDropsQueue ==
    /\ pc = "unwind"
    /\ LET last_ref == amf_surf # 0 /\ amf_surf \notin enc_held
       IN  /\ cb_pc' = IF last_ref THEN [cb_pc EXCEPT !["encode"] = "check"]
                       ELSE cb_pc
           /\ cb_surf' = IF last_ref
                         THEN [cb_surf EXCEPT !["encode"] = amf_surf]
                         ELSE cb_surf
           /\ pc' = IF last_ref THEN "unwind_cb" ELSE "catch"
    /\ amf_surf' = 0
    /\ queued_packets' = IF exc.kind # "none" THEN <<>> ELSE queued_packets
    /\ UNCHANGED <<varsOther, inst, entry, bad_input, rp_in, received_packet, ret, exc,
                   output_tex, waiting, elapsed, prev_elapsed, attempts,
                   all_full, calls, delivered_in_call, delivered, next_out,
                   enc_pending, enc_held, varsPool, cb_after_flag,
                   cb_after_teardown, varsDestroy>>

\* The local amf_surf goes out of scope; if it held the last reference the
\* surface is released and its observer runs on this thread.
Unwind ==
    /\ pc = "unwind"
    /\ LET last_ref == amf_surf # 0 /\ amf_surf \notin enc_held
       IN  /\ cb_pc' = IF last_ref THEN [cb_pc EXCEPT !["encode"] = "check"]
                       ELSE cb_pc
           /\ cb_surf' = IF last_ref
                         THEN [cb_surf EXCEPT !["encode"] = amf_surf]
                         ELSE cb_surf
           /\ pc' = IF last_ref THEN "unwind_cb" ELSE "catch"
    /\ amf_surf' = 0
    /\ UNCHANGED <<varsOther, inst, entry, bad_input, rp_in, received_packet, ret, exc,
                   output_tex, waiting, elapsed, prev_elapsed, attempts,
                   all_full, calls, delivered_in_call, varsEncoder, varsPool,
                   cb_after_flag, cb_after_teardown, varsDestroy>>

\* Whether the local output_tex / buf owns what it names: a ComPtr or a
\* std::vector does, the raw AMFVulkanSurface pointer does not.
LocalOwns == inst = "fallback" \/ platform = "win32"

\* The remaining locals go out of scope, the matching catch clause runs and
\* the entry point returns.
Return ==
    /\ pc = "catch"
    /\ allocated' = IF /\ LocalOwns
                       /\ output_tex # 0
                       /\ ~InPool(output_tex)
                       /\ ~InActive(output_tex)
                    THEN allocated \ {output_tex}
                    ELSE allocated
    /\ output_tex' = 0
    /\ ret' = CatchClauses(entry, exc, received_packet).ret
    /\ received_packet' = CatchClauses(entry, exc, received_packet).received
    /\ pc' = "idle"
    /\ UNCHANGED <<varsOther, inst, entry, bad_input, rp_in, exc, amf_surf, waiting,
                   elapsed, prev_elapsed, attempts, all_full, calls,
                   delivered_in_call, varsEncoder, available_textures,
                   active_textures, textures_mutex, unlocked_access,
                   varsCallback, varsDestroy>>

\* OnSurfaceDataRelease: if (destroying) return.
CbCheck(t) ==
    /\ cb_pc[t] = "check"
    /\ cb_pc' = [cb_pc EXCEPT ![t] = IF destroying THEN "none" ELSE "lock"]
    /\ pc' = IF t = "encode" /\ destroying THEN "catch" ELSE pc
    /\ UNCHANGED <<varsOther, inst, varsCall, varsEncoder, varsPool, cb_surf,
                   cb_after_flag, cb_after_teardown, varsDestroy>>

\* OnSurfaceDataRelease: std::scoped_lock lock(textures_mutex).
CbLock(t) ==
    /\ cb_pc[t] = "lock"
    /\ textures_mutex = "free"
    /\ textures_mutex' = t
    /\ cb_pc' = [cb_pc EXCEPT ![t] = "locked"]
    /\ UNCHANGED <<varsOther, inst, pc, varsCall, varsEncoder, allocated,
                   available_textures, active_textures, unlocked_access,
                   cb_surf, cb_after_flag, cb_after_teardown, varsDestroy>>

\* OnSurfaceDataRelease: find, push_back and erase, then the lock's release.
\* Once the pool and the map are destroyed the find reads freed memory and
\* may or may not report an entry.
CbMove(t) ==
    /\ cb_pc[t] = "locked"
    /\ unlocked_access' = (unlocked_access \/ textures_mutex # t)
    /\ textures_mutex' = IF textures_mutex = t THEN "free" ELSE textures_mutex
    /\ cb_after_flag' = (cb_after_flag \/ destroying)
    /\ cb_after_teardown' = (cb_after_teardown \/ ~pools_alive)
    /\ IF pools_alive
       THEN LET r == OnSurfaceDataRelease(available_textures, active_textures,
                                          cb_surf[t])
            IN  /\ available_textures' = r.pool
                /\ active_textures' = r.active
       ELSE /\ \E found \in BOOLEAN :
                  available_textures' = IF found
                                        THEN Append(available_textures, 0)
                                        ELSE available_textures
            /\ active_textures' = active_textures
    /\ cb_pc' = [cb_pc EXCEPT ![t] = "none"]
    /\ pc' = IF t = "encode" THEN "catch" ELSE pc
    /\ UNCHANGED <<varsOther, inst, varsCall, varsEncoder, allocated, cb_surf,
                   varsDestroy>>

\* The encoder drops its reference to a surface on one of its own threads.
\* The observer runs there unless the encode thread's local amf_surf still
\* holds a reference.
VendorRelease ==
    /\ cb_pc["vendor"] = "none"
    /\ \E s \in enc_held :
          /\ enc_held' = enc_held \ {s}
          /\ IF s = amf_surf
             THEN UNCHANGED <<cb_pc, cb_surf>>
             ELSE /\ cb_pc' = [cb_pc EXCEPT !["vendor"] = "check"]
                  /\ cb_surf' = [cb_surf EXCEPT !["vendor"] = s]
    /\ UNCHANGED <<varsOther, inst, pc, varsCall, queued_packets, delivered, next_out,
                   enc_pending, varsPool, cb_after_flag, cb_after_teardown,
                   varsDestroy>>

\* ~amf_texencode / ~amf_fallback: os_atomic_set_bool(&destroying, true).
DestroySetFlag ==
    /\ pc = "idle"
    /\ d_pc = "alive"
    /\ destroying' = TRUE
    /\ d_pc' = "flagged"
    /\ UNCHANGED <<varsOther, inst, pc, varsCall, varsEncoder, varsPool, varsCallback,
                   pools_alive>>

\* The rest of the destructor: the backend teardown, the destruction of the
\* pool, the map and the mutex, then ~amf_base, which releases the encoder
\* and with it every surface it still holds.  No lock is taken.
DestroyTeardown ==
    /\ d_pc = "flagged"
    /\ pools_alive' = FALSE
    /\ available_textures' = <<>>
    /\ active_textures' = {}
    /\ allocated' = {}
    /\ enc_held' = {}
    /\ queued_packets' = <<>>
    /\ enc_pending' = 0
    /\ d_pc' = "done"
    /\ UNCHANGED <<varsOther, inst, pc, varsCall, delivered, next_out, textures_mutex,
                   unlocked_access, varsCallback, destroying>>

Init ==
    /\ codec = "AVC"
    /\ platform \in Platforms
    /\ IdlePreset
    /\ IdleCaps
    /\ IdleLoad
    /\ InitEnc

Next ==
    \/ Call
    \/ Enter
    \/ PoolLock
    \/ PoolTake
    \/ AddOutputTex
    \/ Prepare
    \/ ActiveLock
    \/ ActiveInsert
    \/ BaseEntry
    \/ Submit
    \/ Query
    \/ Deliver
    \/ Unwind
    \/ Return
    \/ \E t \in Threads : CbCheck(t)
    \/ \E t \in Threads : CbLock(t)
    \/ \E t \in Threads : CbMove(t)
    \/ VendorRelease
    \/ DestroySetFlag
    \/ DestroyTeardown

Spec == Init /\ [][Next]_vars

(***************************************************************************)
(* Claims about the run time                                               *)
(***************************************************************************)

StrictlyIncreasing(q) == \A i, j \in 1..Len(q) : i < j => q[i] < q[j]

\* C1: outputs reach the host in the order QueryOutput produced them: a call
\* delivers at most one, what it delivers is older than everything still
\* queued, and nothing is delivered before an output queried earlier.
C1_FifoDelivery ==
    /\ delivered_in_call <= 1
    /\ StrictlyIncreasing(delivered)
    /\ StrictlyIncreasing(queued_packets)
    /\ \A i \in 1..Len(delivered), j \in 1..Len(queued_packets) :
          delivered[i] < queued_packets[j]

\* A call that drained two outputs delivered the first and kept the second.
C1_Witness ==
    /\ pc = "idle"
    /\ delivered_in_call = 1
    /\ delivered = <<1>>
    /\ queued_packets = <<2>>

\* C2: a call in which anything failed returns false with *received_packet
\* false, whatever the caller had stored there.
C2_FailureClearsReceived ==
    (pc = "idle" /\ exc.kind # "none") =>
        (ret = "false" /\ received_packet = FALSE)

\* No call and no callback is in progress and the instance is alive.
Quiescent ==
    /\ pc = "idle"
    /\ d_pc = "alive"
    /\ \A t \in Threads : cb_pc[t] = "none"

\* C4: between calls and callbacks every allocated texture or buffer is
\* either in the available pool or in the active map under exactly one
\* surface the encoder holds, never both and never neither.
C4_PoolPartition ==
    Quiescent =>
        \A t \in allocated :
            LET bound == {p \in active_textures : p[2] = t}
            IN  /\ InPool(t) # (bound # {})
                /\ Cardinality(bound) <= 1
                /\ \A p \in bound : p[1] \in enc_held

\* C5: the destructor sets destroying before it tears anything down, and
\* no release callback touches the pool or the map once the flag is set.
C5_NoTouchAfterFlag ==
    /\ ~pools_alive => destroying
    /\ ~cb_after_flag

\* The steps at which the encode thread calls into the encoder or waits for
\* the keyed mutex or the copy fence.
BlockingSteps == {"prepare", "submit", "query"}

\* C6: every pool or map access is made under the mutex, the encode thread
\* does not hold it at a blocking step, and whoever holds it is at a step
\* that releases it, so a waiting thread always gets it.
C6_MutexDiscipline ==
    /\ ~unlocked_access
    /\ pc \in BlockingSteps => textures_mutex # "encode"
    /\ textures_mutex = "encode" =>
          (pc \in {"pool_take", "active_insert"} \/ cb_pc["encode"] = "locked")
    /\ textures_mutex = "vendor" => cb_pc["vendor"] = "locked"

\* A callback fired on a vendor thread holds the mutex while the encode
\* thread is between SubmitInput and QueryOutput.
C6_Witness ==
    /\ cb_pc["vendor"] = "locked"
    /\ textures_mutex = "vendor"
    /\ pc \in {"submit", "query"}

\* A call whose every SubmitInput returned AMF_INPUT_FULL has returned.
AllFullCallDone == pc = "idle" /\ attempts > 0 /\ all_full

\* C7 as stated: such a call fails with the submit-timeout error.
C7_Original ==
    AllFullCallDone =>
        /\ ret = "false"
        /\ received_packet = FALSE
        /\ exc.msg = "SubmitInput timed out"

\* C7: a call whose every SubmitInput returns AMF_INPUT_FULL ends after at
\* most one attempt per tick of the timeout, with failure and no packet.
\* It ends with the submit-timeout error at the first measurement that
\* reaches the timeout and never before, unless a QueryOutput between two
\* attempts fails first.
C7_TimeoutOrQueryFailure ==
    /\ attempts <= TimeoutTicks
    /\ (pc \in {"submit", "query"} /\ waiting) => elapsed < TimeoutTicks
    /\ exc.msg = "SubmitInput timed out" =>
          /\ all_full
          /\ elapsed >= TimeoutTicks
          /\ prev_elapsed < TimeoutTicks
    /\ AllFullCallDone =>
          /\ ret = "false"
          /\ received_packet = FALSE
          /\ exc.msg \in {"SubmitInput timed out", "QueryOutput failed"}

\* A call timed out after more than one attempt.
C7_Witness ==
    /\ AllFullCallDone
    /\ attempts >= 2
    /\ exc.msg = "SubmitInput timed out"

\* C28 as stated: while SubmitInput keeps returning AMF_INPUT_FULL no
\* QueryOutput call is made, the output being drained only after the submit
\* loop ended.
C28_Original == pc = "query" => ~waiting

\* C28 (amended): SubmitInput is called only while the surface is not yet
\* accepted; AMF_OK or AMF_NEED_MORE_INPUT ends the waiting; every attempt
\* that does not end the call with an error, an AMF_INPUT_FULL one included,
\* is followed by the drain of QueryOutput; the drain goes back to
\* SubmitInput only while the surface is not accepted and on to the
\* delivery only once it is.
C28_SubmitThenDrainPerAttempt ==
    /\ [](pc = "submit" => waiting)
    /\ [][/\ (pc = "submit" /\ enc_pending' = enc_pending + 1) => ~waiting'
          /\ (pc = "submit" /\ attempts' = attempts + 1 /\ pc' # "unwind")
                => pc' = "query"
          /\ (pc = "query" /\ pc' = "submit") => waiting
          /\ (pc = "query" /\ pc' = "deliver") => ~waiting
          /\ (pc \in {"submit", "query"} /\ waiting') => waiting]_vars

\* The surface was accepted at the second attempt or later: the drain ran
\* between the attempts and again after the accepting one.
C28_Witness ==
    /\ pc = "deliver"
    /\ attempts >= 2
    /\ ~waiting
    /\ ~all_full

\* The outputs QueryOutput has produced so far.
Produced == 1..(next_out - 1)

InSeq(q, x) == \E i \in 1..Len(q) : q[i] = x

\* C33: every output amf_encode_base takes out of the FIFO is delivered to
\* the host: once the call has returned, an output that is no longer queued
\* was delivered, and the call that took it reported a packet.
C33_PoppedIsDelivered ==
    (pc = "idle" /\ d_pc = "alive") =>
        \A o \in Produced : InSeq(queued_packets, o) \/ InSeq(delivered, o)

\* What the submit loop of amf_encode_base throws.
SubmitLoopFailures ==
    {"SubmitInput timed out", "SubmitInput failed", "QueryOutput failed"}

\* C34: a call that fails in the submit loop (timeout, SubmitInput error,
\* QueryOutput error) leaves the FIFO as the loop made it: from the failure
\* on nothing is removed or reordered, outputs are only appended; and an
\* output reaches the host only as the oldest of the queue, taken from its
\* front by a call that did not fail before.
C34_FailedCallKeepsQueue ==
    [][/\ (d_pc' # "done" /\ exc'.msg \in SubmitLoopFailures)
            => IsPrefix(queued_packets, queued_packets')
       /\ (delivered' # delivered)
            => /\ exc.kind = "none"
               /\ queued_packets # <<>>
               /\ delivered' = Append(delivered, Head(queued_packets))
               /\ queued_packets' = Tail(queued_packets)]_vars

\* A call queued an output and then failed on QueryOutput: it returned
\* false and the output is still queued.
C34_Witness ==
    /\ pc = "idle"
    /\ ret = "false"
    /\ exc.msg = "QueryOutput failed"
    /\ queued_packets = <<1>>
    /\ delivered = <<>>

(***************************************************************************)
(* amf_load: the capability probe and the registration of the encoders     *)
(***************************************************************************)

\* The load steps that fail on their own account; the remaining failures
\* follow from what the probe helper printed.
LoadFailures ==
    {"none", "no_library", "launch", "dlopen", "AMFInit_address", "AMFInit",
     "GetTrace", "AMFQueryVersion_address", "AMFQueryVersion"}

\* The numbered sections of the helper's output, none included.
HelperTables == {<<>>} \cup CapsTables

\* The helper's output: nothing, text that does not parse, an error string,
\* or adapter sections.
HelperOutputs ==
    {[kind |-> k, sections |-> <<>>] : k \in {"empty", "unparsable", "error"}}
        \cup {[kind |-> "sections", sections |-> t] : t \in HelperTables}

\* amf_load up to "Init AMF": the type of the exception thrown, or "none".
ProbeOutcome(out, fail) ==
    IF fail = "no_library" THEN "cstr"
    ELSE IF fail = "launch" THEN "cstr"
    ELSE IF out.kind = "empty" THEN "cstr"
    ELSE IF out.kind = "unparsable" THEN "cstr"
    ELSE IF out.kind = "error" THEN "string"
    ELSE IF ~(\E c \in Codecs : Registered(out.sections, c)) THEN "cstr"
    ELSE "none"

\* Whether amf_load reaches the loop that fills caps.
ReachesCapsLoop(out, fail) ==
    /\ fail \notin {"no_library", "launch"}
    /\ out.kind = "sections"

\* Mutant: the result of GetTrace is not tested.
InitAmfOutcomeIgnoresTrace(fail) ==
    CASE fail \in {"dlopen", "AMFInit_address", "AMFQueryVersion_address"}
              -> "cstr"
      [] fail \in {"AMFInit", "AMFQueryVersion"} -> "amf_error"
      [] OTHER -> "none"

\* "Init AMF": the type of the exception thrown, or "none".
InitAmfOutcome(fail) ==
    CASE fail \in {"dlopen", "AMFInit_address", "AMFQueryVersion_address"}
              -> "cstr"
      [] fail \in {"AMFInit", "GetTrace", "AMFQueryVersion"} -> "amf_error"
      [] OTHER -> "none"

\* The exception types amf_load has a catch clause for.
LoadCatches == {"string", "cstr", "amf_error"}

register_avc == <<"h264_texture_amf", "h264_fallback_amf">>

register_hevc == <<"h265_texture_amf", "h265_fallback_amf">>

\* Mutant: only the texture encoder of AV1 is registered.
register_av1_texture_only == <<"av1_texture_amf">>

register_av1 == <<"av1_texture_amf", "av1_fallback_amf">>

\* "Register encoders".
RegisterEncoders(tbl, hevc_on) ==
    (IF Registered(tbl, "AVC") THEN register_avc ELSE <<>>)
        \o (IF hevc_on /\ Registered(tbl, "HEVC") THEN register_hevc
            ELSE <<>>)
        \o (IF Registered(tbl, "AV1") THEN register_av1 ELSE <<>>)

InitLoad ==
    /\ codec = "AVC"
    /\ helper_out \in HelperOutputs
    /\ load_fail \in LoadFailures
    /\ enable_hevc \in BOOLEAN
    /\ registered = <<>>
    /\ load_exc = "none"
    /\ load_escaped = FALSE
    /\ load_pc = "start"
    /\ pool_log = <<>>
    /\ gpu = NoGpu
    /\ vkctx = NoVkCtx
    /\ fb = NoFallback
    /\ gltex = NoGlTex
    /\ IdlePacket
    /\ IdlePreset
    /\ IdleCreate
    /\ IdleEnc

\* amf_load from the library test to the "no codec supported" test.
LoadProbe ==
    /\ load_pc = "start"
    /\ caps' = IF ReachesCapsLoop(helper_out, load_fail)
               THEN helper_out.sections
               ELSE caps
    /\ LET x == ProbeOutcome(helper_out, load_fail)
       IN  /\ load_exc' = x
           /\ load_escaped' = (x # "none" /\ x \notin LoadCatches)
           /\ load_pc' = IF x = "none" THEN "probed" ELSE "returned"
    /\ UNCHANGED <<varsPreset, varsEnc, platform, ovi_adapter,
                   scaling_enabled, nv12_tex_active, p010_tex_active,
                   voi_format, voi_colorspace, create_fail, create_result,
                   create_pc, last_error, sdk_started, helper_out, load_fail,
                   enable_hevc, registered, varsPoolLog, varsPacket>>

\* amf_load: "Init AMF".
LoadInitAmf ==
    /\ load_pc = "probed"
    /\ LET x == InitAmfOutcome(load_fail)
       IN  /\ load_exc' = x
           /\ load_escaped' = (x # "none" /\ x \notin LoadCatches)
           /\ load_pc' = IF x = "none" THEN "inited" ELSE "returned"
    /\ UNCHANGED <<varsPreset, varsCreate, varsEnc, helper_out, load_fail,
                   enable_hevc, registered, varsPoolLog, varsPacket>>

\* amf_load: "Register encoders".
LoadRegister ==
    /\ load_pc = "inited"
    /\ registered' = RegisterEncoders(caps, enable_hevc)
    /\ load_pc' = "returned"
    /\ UNCHANGED <<varsPreset, varsCreate, varsEnc, helper_out, load_fail,
                   enable_hevc, load_exc, load_escaped, varsPoolLog, varsPacket>>

NextLoad == LoadProbe \/ LoadInitAmf \/ LoadRegister

SpecLoad == InitLoad /\ [][NextLoad]_vars

(***************************************************************************)
(* Claims about amf_load                                                   *)
(***************************************************************************)

IsRegistered(id) == \E i \in 1..Len(registered) : registered[i] = id

TextureIdOf(c) ==
    CASE c = "AVC"  -> "h264_texture_amf"
      [] c = "HEVC" -> "h265_texture_amf"
      [] OTHER      -> "av1_texture_amf"

\* Some load step fails in this run.
LoadStepFails ==
    \/ load_fail # "none"
    \/ helper_out.kind # "sections"
    \/ ~(\E c \in Codecs : Registered(helper_out.sections, c))

\* C12: encoders are registered only when every load step succeeded; when a
\* step fails nothing is registered and amf_load returns normally.
C12_RegisterOnlyAfterEveryStep ==
    /\ registered # <<>> => ~LoadStepFails
    /\ ~load_escaped
    /\ (load_pc = "returned" /\ LoadStepFails) =>
          (registered = <<>> /\ load_exc # "none")

\* GetTrace failed after a probe that found a supported codec.
C12_Witness ==
    /\ load_pc = "returned"
    /\ load_fail = "GetTrace"
    /\ load_exc = "amf_error"
    /\ \E c \in Codecs : Registered(caps, c)
    /\ registered = <<>>

LoadSucceeded == load_pc = "returned" /\ load_exc = "none"

\* C13 as stated: after a successful load a codec's texture ID and fallback
\* ID are registered together, exactly when some adapter supports the codec.
C13_Original ==
    /\ registered # <<>> => caps = helper_out.sections
    /\ LoadSucceeded =>
          \A c \in Codecs :
             /\ IsRegistered(TextureIdOf(c)) <=> IsRegistered(FallbackIdOf(c))
             /\ IsRegistered(TextureIdOf(c)) <=> Registered(caps, c)

\* Whether the build contains the codec's encoders.
Built(c) == c = "HEVC" => enable_hevc

\* C13: after a successful load a codec's texture ID and fallback ID are
\* registered together, exactly when some adapter section supports the codec
\* and the build contains the codec (HEVC only with ENABLE_HEVC); the table
\* holds every section before the first registration.
C13_PairsPerSupportedBuiltCodec ==
    /\ registered # <<>> => caps = helper_out.sections
    /\ LoadSucceeded =>
          \A c \in Codecs :
             /\ IsRegistered(TextureIdOf(c)) <=> IsRegistered(FallbackIdOf(c))
             /\ IsRegistered(TextureIdOf(c)) <=>
                   (Registered(caps, c) /\ Built(c))

\* A build without HEVC loaded on a device that supports all three codecs.
C13_Witness ==
    /\ LoadSucceeded
    /\ ~enable_hevc
    /\ Registered(caps, "HEVC")
    /\ registered = register_avc \o register_av1

(***************************************************************************)
(* The pool seen as whole operations.  Every access to the pool and the    *)
(* map is made under the mutex (C6), so a frame request that succeeds and  *)
(* a release notification each act on them in one step.                    *)
(***************************************************************************)

MaxFrames == 3

MaxNotifications == 3

\* get_buf: a pooled buffer if there is one, else a new one.
get_buf(pool) ==
    IF pool # <<>>
    THEN [tex |-> Last(pool), pool |-> Front(pool), reused |-> TRUE]
    ELSE [tex |-> NewTex, pool |-> pool, reused |-> FALSE]

\* Mutant: a new output texture for every frame.
get_output_tex_always_allocates(pool) ==
    [tex |-> NewTex, pool |-> pool, reused |-> FALSE]

\* get_output_tex: get_available_tex, else add_output_tex.
get_output_tex(pool) ==
    IF pool # <<>>
    THEN [tex |-> Last(pool), pool |-> Front(pool), reused |-> TRUE]
    ELSE [tex |-> NewTex, pool |-> pool, reused |-> FALSE]

InitPool ==
    /\ codec = "AVC"
    /\ IdlePreset
    /\ IdleCreate
    /\ IdleLoad
    /\ InitEnc

\* The variables of an instance that the whole operations leave alone.
varsPoolRest ==
    <<inst, pc, entry, bad_input, rp_in, received_packet, ret, exc, output_tex,
      amf_surf, waiting, elapsed, prev_elapsed, attempts, all_full,
      delivered_in_call, queued_packets, delivered, next_out, enc_pending,
      textures_mutex, unlocked_access, varsCallback, varsDestroy, gpu, vkctx,
      fb, gltex>>

\* A frame request that succeeds: amf_encode_tex / amf_encode_tex2 /
\* amf_encode_fallback from get_output_tex or get_buf to an accepted
\* SubmitInput.
FrameRequest ==
    /\ calls < MaxFrames
    /\ LET r == IF inst = "fallback" THEN get_buf(available_textures)
                ELSE get_output_tex(available_textures)
           surf == calls + 1
       IN  /\ available_textures' = r.pool
           /\ allocated' = allocated \cup {r.tex}
           /\ active_textures' = ActiveAssign(active_textures, surf, r.tex)
           /\ enc_held' = enc_held \cup {surf}
           /\ pool_log' = Append(pool_log,
                                 [op |-> "request", surf |-> surf,
                                  tex |-> r.tex, hit |-> r.reused])
    /\ calls' = calls + 1
    /\ UNCHANGED <<varsPreset, varsCreate, varsLoad, varsPoolRest, varsPacket>>

\* A release notification: OnSurfaceDataRelease(surf) for a surface created
\* by an earlier frame request, whether or not it is still in the map.
ReleaseNotification ==
    /\ Len(SelectSeq(pool_log, LAMBDA e : e.op = "notify")) < MaxNotifications
    /\ \E surf \in 1..calls :
          LET r == OnSurfaceDataRelease(available_textures, active_textures,
                                        surf)
          IN  /\ available_textures' = r.pool
              /\ active_textures' = r.active
              /\ enc_held' = enc_held \ {surf}
              /\ pool_log' = Append(pool_log,
                                    [op |-> "notify", surf |-> surf,
                                     tex |-> IF Len(r.pool)
                                                  > Len(available_textures)
                                             THEN Last(r.pool) ELSE 0,
                                     hit |-> Len(r.pool)
                                                 > Len(available_textures)])
    /\ UNCHANGED <<varsPreset, varsCreate, varsLoad, varsPoolRest, allocated,
                   calls, varsPacket>>

NextPool == FrameRequest \/ ReleaseNotification

SpecPool == InitPool /\ [][NextPool]_vars

(***************************************************************************)
(* Claims about the pool seen as whole operations.                         *)
(***************************************************************************)

LogIndices == 1..Len(pool_log)

Requests == {i \in LogIndices : pool_log[i].op = "request"}

\* The notifications that moved a buffer.
Moves == {i \in LogIndices : pool_log[i].op = "notify" /\ pool_log[i].hit}

PoolCount(t) ==
    Cardinality({i \in 1..Len(available_textures) : available_textures[i] = t})

\* C15 as stated: in the fallback path every buffer bound in the active map
\* was earlier taken out of the available pool.
C15_Original ==
    inst = "fallback" =>
        \A p \in active_textures :
            \E i \in Requests : pool_log[i].tex = p[2] /\ pool_log[i].hit

\* What a release notification may do to the two collections in one step.
C15_NotificationStep ==
    (/\ Len(pool_log') = Len(pool_log) + 1
     /\ Last(pool_log').op = "notify")
    => LET surf == Last(pool_log').surf
           bound == {p \in active_textures : p[1] = surf}
       IN  IF bound = {}
           THEN /\ available_textures' = available_textures
                /\ active_textures' = active_textures
           ELSE /\ \E p \in bound :
                      available_textures' = Append(available_textures, p[2])
                /\ active_textures' = active_textures \ bound

\* The state part: where the bound and the pooled buffers come from.
C15_Provenance ==
    inst = "fallback" =>
        \* a bound buffer is the one get_buf returned to the request that
        \* bound it: out of the pool, or newly allocated with the pool empty
        /\ \A p \in active_textures :
              \E i \in Requests :
                  /\ pool_log[i].surf = p[1]
                  /\ pool_log[i].tex = p[2]
                  /\ pool_log[i].hit =>
                        \E j \in Moves : j < i /\ pool_log[j].tex = p[2]
                  /\ ~pool_log[i].hit =>
                        \A j \in 1..(i - 1) : pool_log[j].tex # p[2]
        \* a pooled buffer is there once, put by a removal from the map that
        \* no later request has taken out again
        /\ \A t \in allocated :
              /\ PoolCount(t) =
                     Cardinality({j \in Moves : pool_log[j].tex = t})
                     - Cardinality({i \in Requests : pool_log[i].tex = t
                                                     /\ pool_log[i].hit})
              /\ PoolCount(t) <= 1
              /\ ~(InPool(t) /\ InActive(t))
        \* at most one move per surface
        /\ \A j, k \in Moves :
              pool_log[j].surf = pool_log[k].surf => j = k

\* C15 (amended): in the fallback path every buffer bound in the active map
\* is the one get_buf gave the frame request that bound it, taken out of the
\* available pool or, with the pool empty, newly allocated; every buffer put
\* into the pool comes from exactly one removal from the active map, at most
\* one per surface; a notification for a surface that is not in the active
\* map changes neither collection.
C15_BufferProvenance ==
    /\ []C15_Provenance
    /\ [][inst = "fallback" => C15_NotificationStep]_vars

\* A buffer went map -> pool -> map, and a notification found nothing.
C15_Witness ==
    /\ inst = "fallback"
    /\ active_textures # {}
    /\ \E i \in Requests, j \in Moves :
          j < i /\ pool_log[i].hit /\ pool_log[i].tex = pool_log[j].tex
    /\ \E k \in LogIndices :
          pool_log[k].op = "notify" /\ ~pool_log[k].hit

\* The first 2n entries of the history are n requests that allocated and then
\* n notifications, one for each of their surfaces.
RoundTrip(n) ==
    /\ Len(pool_log) >= 2 * n
    /\ \A i \in 1..n : pool_log[i].op = "request" /\ ~pool_log[i].hit
    /\ \A i \in (n + 1)..(2 * n) : pool_log[i].op = "notify"
    /\ {pool_log[i].surf : i \in (n + 1)..(2 * n)}
           = {pool_log[i].surf : i \in 1..n}

RoundTripTextures(n) == {pool_log[i].tex : i \in 1..n}

\* C16: after N frame requests that each allocated an output texture and N
\* release notifications, one per surface, the pool holds exactly those N
\* textures and the active map is empty; the next frame request takes one of
\* them and allocates nothing.
C16_PoolRoundTrip ==
    inst = "texencode" =>
        \A n \in 1..MaxFrames :
            RoundTrip(n) =>
                /\ Len(pool_log) = 2 * n =>
                      /\ Len(available_textures) = n
                      /\ {available_textures[i] : i \in 1..n}
                             = RoundTripTextures(n)
                      /\ Cardinality(RoundTripTextures(n)) = n
                      /\ active_textures = {}
                /\ (/\ Len(pool_log) = 2 * n + 1
                    /\ pool_log[2 * n + 1].op = "request") =>
                      /\ pool_log[2 * n + 1].hit
                      /\ pool_log[2 * n + 1].tex \in RoundTripTextures(n)
                      /\ allocated = RoundTripTextures(n)
                      /\ Len(available_textures) = n - 1
                      /\ active_textures
                             = {<<pool_log[2 * n + 1].surf,
                                  pool_log[2 * n + 1].tex>>}

\* Two allocations, two notifications, and then a request.
C16_Witness ==
    /\ inst = "texencode"
    /\ RoundTrip(2)
    /\ Len(pool_log) = 5
    /\ pool_log[5].op = "request"

(***************************************************************************)
(* Timestamps and packet conversion: amf_*_create_internal establishes     *)
(* dts_offset, a frame is submitted with its pts converted to vendor       *)
(* ticks, and convert_to_encoder_packet fills the host's packet from the   *)
(* output.                                                                 *)
(***************************************************************************)

\* core/Platform.h of the SDK: ticks of 100 ns in a second.
AMF_SECOND == 10000000

\* components/VideoEncoderVCE.h: AMF_VIDEO_ENCODER_OUTPUT_DATA_TYPE_ENUM.
AMF_VIDEO_ENCODER_OUTPUT_DATA_TYPE_IDR == 0

AMF_VIDEO_ENCODER_OUTPUT_DATA_TYPE_I == 1

AMF_VIDEO_ENCODER_OUTPUT_DATA_TYPE_P == 2

AMF_VIDEO_ENCODER_OUTPUT_DATA_TYPE_B == 3

\* components/VideoEncoderAV1.h: AMF_VIDEO_ENCODER_AV1_OUTPUT_FRAME_TYPE_ENUM.
AMF_VIDEO_ENCODER_AV1_OUTPUT_FRAME_TYPE_KEY == 0

AMF_VIDEO_ENCODER_AV1_OUTPUT_FRAME_TYPE_INTRA_ONLY == 1

AMF_VIDEO_ENCODER_AV1_OUTPUT_FRAME_TYPE_INTER == 2

AMF_VIDEO_ENCODER_AV1_OUTPUT_FRAME_TYPE_SWITCH == 3

AMF_VIDEO_ENCODER_AV1_OUTPUT_FRAME_TYPE_SHOW_EXISTING == 4

MaxPts == 10

MaxBFrames == 2

\* The largest value of the output-type property the encoder answers.
MaxOutputType == 5

\* obs_video_info::fps_den: 30/1, 60/2, 10/3, 30000/1001.
FpsDens == {1, 2, 3, 1001}

\* int64_t division: the quotient is truncated towards zero.
IntDiv(a, b) == IF a >= 0 THEN a \div b ELSE -((-a) \div b)

\* Mutant: the division is made first.
convert_to_amf_ts_divides_first(den, ts) == IntDiv(ts, den) * AMF_SECOND

\* ts * amf_timebase / (int64_t)enc->fps_den
convert_to_amf_ts(den, ts) == IntDiv(ts * AMF_SECOND, den)

\* ts * (int64_t)enc->fps_den / amf_timebase
convert_to_obs_ts(den, ts) == IntDiv(ts * den, AMF_SECOND)

\* The switch on the output type; a value with no case leaves the priority.
PacketPriority(c, type, before) ==
    IF c \in {"AVC", "HEVC"}
    THEN CASE type = AMF_VIDEO_ENCODER_OUTPUT_DATA_TYPE_IDR -> "highest"
           [] type = AMF_VIDEO_ENCODER_OUTPUT_DATA_TYPE_I -> "high"
           [] type = AMF_VIDEO_ENCODER_OUTPUT_DATA_TYPE_P -> "low"
           [] type = AMF_VIDEO_ENCODER_OUTPUT_DATA_TYPE_B -> "disposable"
           [] OTHER -> before
    ELSE CASE type = AMF_VIDEO_ENCODER_AV1_OUTPUT_FRAME_TYPE_KEY -> "highest"
           [] type = AMF_VIDEO_ENCODER_AV1_OUTPUT_FRAME_TYPE_INTRA_ONLY
                -> "high"
           [] type = AMF_VIDEO_ENCODER_AV1_OUTPUT_FRAME_TYPE_INTER -> "low"
           [] type = AMF_VIDEO_ENCODER_AV1_OUTPUT_FRAME_TYPE_SWITCH
                -> "disposable"
           [] type = AMF_VIDEO_ENCODER_AV1_OUTPUT_FRAME_TYPE_SHOW_EXISTING
                -> "disposable"
           [] OTHER -> before

\* Mutant: the keyframe test uses the I type.
PacketKeyframeOnIntra(type) == type = AMF_VIDEO_ENCODER_OUTPUT_DATA_TYPE_I

\* packet->keyframe = type == AMF_VIDEO_ENCODER_OUTPUT_DATA_TYPE_IDR
PacketKeyframe(type) == type = AMF_VIDEO_ENCODER_OUTPUT_DATA_TYPE_IDR

\* packet->dts = convert_to_obs_ts(enc, data->GetPts());
\* if (enc->dts_offset) packet->dts -= enc->dts_offset;
PacketDts(den, out_pts, offset) ==
    LET dts == convert_to_obs_ts(den, out_pts)
    IN  IF offset # 0 THEN dts - offset ELSE dts

\* Mutant: the offset is the read-back pattern itself.
DtsOffsetIsPattern(supported, answers, before) ==
    IF supported
    THEN IF answers.pattern_ok /\ answers.max_ok THEN answers.b_frames
         ELSE 0
    ELSE before

\* The end of amf_avc_create_internal: the read-back of B_PIC_PATTERN and
\* MAX_CONSECUTIVE_BPICTURES (the second only if the first succeeded).
DtsOffsetAfterInit(supported, answers, before) ==
    IF supported
    THEN IF answers.pattern_ok /\ answers.max_ok THEN answers.b_frames + 1
         ELSE 0
    ELSE before

\* convert_to_encoder_packet, for an output with the "PTS" property pts_prop,
\* the timestamp out_pts and the output type type.
convert_to_encoder_packet(c, den, offset, pts_prop, out_pts, type, before) ==
    [pts      |-> pts_prop,
     dts      |-> PacketDts(den, out_pts, offset),
     priority |-> PacketPriority(c, type, before.priority),
     keyframe |-> PacketKeyframe(type)]

\* What the encoder component may answer during creation.
DeviceAnswers ==
    [init_ok : BOOLEAN, getcaps_ok : BOOLEAN, cap_bframes : BOOLEAN,
     pattern_ok : BOOLEAN, max_ok : BOOLEAN, b_frames : 0..MaxBFrames]

InitPacket ==
    /\ codec \in Codecs
    /\ IdlePreset
    /\ IdleCreate
    /\ helper_out = [kind |-> "empty", sections |-> <<>>]
    /\ load_fail = "none"
    /\ enable_hevc = TRUE
    /\ registered = <<>>
    /\ load_exc = "none"
    /\ load_escaped = FALSE
    /\ load_pc = "start"
    /\ pool_log = <<>>
    /\ gpu = NoGpu
    /\ vkctx = NoVkCtx
    /\ fb = NoFallback
    /\ gltex = NoGlTex
    /\ IdleEnc
    /\ fps_den \in FpsDens
    /\ bframes_supported = FALSE
    /\ dts_offset = 0
    /\ dev \in DeviceAnswers
    /\ frame_pts = 0
    /\ surf_pts = 0
    /\ packet = NoPacket
    /\ pkt_pc = "new"

\* amf_avc_create_internal / amf_hevc_create_internal /
\* amf_av1_create_internal: only the AVC variant reads the B-frame capability
\* and sets dts_offset; a failing AMFComponent::Init throws before that.
CreateInternal ==
    /\ pkt_pc = "new"
    /\ LET supported == codec = "AVC" /\ dev.getcaps_ok /\ dev.cap_bframes
       IN  /\ bframes_supported' = supported
           /\ IF dev.init_ok
              THEN /\ dts_offset' =
                         IF codec = "AVC"
                         THEN DtsOffsetAfterInit(supported, dev, dts_offset)
                         ELSE dts_offset
                   /\ pkt_pc' = "created"
              ELSE /\ dts_offset' = dts_offset
                   /\ pkt_pc' = "failed"
    /\ UNCHANGED <<varsPreset, varsCreate, varsEnc, varsLoad, varsPoolLog,
                   fps_den, dev, frame_pts, surf_pts, packet>>

\* A per-frame entry point, called with a packet of the host's, tags the
\* surface: SetPts(convert_to_amf_ts(pts)) and SetProperty(L"PTS", pts).
SubmitFrame ==
    /\ pkt_pc \in {"created", "converted"}
    /\ \E pts \in 0..MaxPts :
          /\ frame_pts' = pts
          /\ surf_pts' = convert_to_amf_ts(fps_den, pts)
    /\ packet' = NoPacket
    /\ pkt_pc' = "submitted"
    /\ UNCHANGED <<varsPreset, varsCreate, varsEnc, varsLoad, varsPoolLog,
                   fps_den, bframes_supported, dts_offset, dev>>

\* amf_encode_base converts the output of that frame; the encoder hands the
\* pts and the "PTS" property of the input surface on to its output.
ConvertPacket ==
    /\ pkt_pc = "submitted"
    /\ \E type \in 0..MaxOutputType :
          packet' = convert_to_encoder_packet(codec, fps_den, dts_offset,
                                              frame_pts, surf_pts, type,
                                              packet)
    /\ pkt_pc' = "converted"
    /\ UNCHANGED <<varsPreset, varsCreate, varsEnc, varsLoad, varsPoolLog,
                   fps_den, bframes_supported, dts_offset, dev, frame_pts,
                   surf_pts>>

NextPacket == CreateInternal \/ SubmitFrame \/ ConvertPacket

SpecPacket == InitPacket /\ [][NextPacket]_vars

(***************************************************************************)
(* Claims about timestamps and packet conversion.                          *)
(***************************************************************************)

\* C17 as stated: for every host timestamp and every fps_den the conversion
\* to vendor ticks and back returns the timestamp, so with a DTS offset of 0
\* the dts of a packet equals the pts its frame was submitted with.
C17_Original ==
    /\ pkt_pc \in {"submitted", "converted"}
          => convert_to_obs_ts(fps_den, surf_pts) = frame_pts
    /\ (pkt_pc = "converted" /\ dts_offset = 0) => packet.dts = packet.pts

\* The conversion to vendor ticks loses nothing: fps_den divides
\* ts * AMF_SECOND.
ExactInTicks(den, ts) == (ts * AMF_SECOND) % den = 0

\* What the two truncating divisions return for a timestamp ts >= 0.
RoundTripOf(den, ts) == IF ExactInTicks(den, ts) THEN ts ELSE ts - 1

\* C17 (amended): for a host timestamp ts >= 0 and 1 <= fps_den <= AMF_SECOND
\* the conversion to vendor ticks and back returns ts when fps_den divides
\* ts * AMF_SECOND (every ts that is a multiple of fps_den, and every ts when
\* fps_den divides AMF_SECOND), and ts - 1 otherwise; with a DTS offset of 0
\* the dts of a packet is that value for the pts its frame was submitted
\* with.
C17_RoundTripUpToTruncation ==
    /\ pkt_pc \in {"submitted", "converted"}
          => convert_to_obs_ts(fps_den, surf_pts)
                 = RoundTripOf(fps_den, frame_pts)
    /\ (pkt_pc = "converted" /\ dts_offset = 0)
          => /\ packet.pts = frame_pts
             /\ packet.dts = RoundTripOf(fps_den, packet.pts)

\* A timestamp that is a multiple of a denominator that does not divide
\* AMF_SECOND came back unchanged.
C17_Witness ==
    /\ pkt_pc = "converted"
    /\ dts_offset = 0
    /\ fps_den = 3
    /\ frame_pts = 6
    /\ surf_pts = 2 * AMF_SECOND
    /\ packet.dts = 6
    /\ packet.pts = 6

\* The output types defined for a codec.
OutputTypes(c) ==
    IF c = "AV1"
    THEN {AMF_VIDEO_ENCODER_AV1_OUTPUT_FRAME_TYPE_KEY,
          AMF_VIDEO_ENCODER_AV1_OUTPUT_FRAME_TYPE_INTRA_ONLY,
          AMF_VIDEO_ENCODER_AV1_OUTPUT_FRAME_TYPE_INTER,
          AMF_VIDEO_ENCODER_AV1_OUTPUT_FRAME_TYPE_SWITCH,
          AMF_VIDEO_ENCODER_AV1_OUTPUT_FRAME_TYPE_SHOW_EXISTING}
    ELSE {AMF_VIDEO_ENCODER_OUTPUT_DATA_TYPE_IDR,
          AMF_VIDEO_ENCODER_OUTPUT_DATA_TYPE_I,
          AMF_VIDEO_ENCODER_OUTPUT_DATA_TYPE_P,
          AMF_VIDEO_ENCODER_OUTPUT_DATA_TYPE_B}

\* The table of the packet conversion, by the names of the output types.
PriorityTable(c) ==
    IF c = "AV1"
    THEN <<"highest", "high", "low", "disposable", "disposable">>
    ELSE <<"highest", "high", "low", "disposable">>

\* What one conversion step does to the packet.
C18_ConversionStep ==
    (pkt_pc = "submitted" /\ pkt_pc' = "converted")
    => \A type \in OutputTypes(codec) :
          packet' = convert_to_encoder_packet(codec, fps_den, dts_offset,
                                              frame_pts, surf_pts, type,
                                              packet)
          => /\ packet'.priority = PriorityTable(codec)[type + 1]
             /\ packet'.keyframe = (packet'.priority = "highest")

\* C18: for every codec and every output type defined for it, the conversion
\* sets the priority of the table (AVC/HEVC: IDR highest, I high, P low, B
\* disposable; AV1: KEY highest, INTRA_ONLY high, INTER low, SWITCH and
\* SHOW_EXISTING disposable) and sets keyframe exactly when that priority is
\* highest.
C18_PriorityTable == [][C18_ConversionStep]_vars

\* An AV1 output of the last type of the table was converted.
C18_Witness ==
    /\ pkt_pc = "converted"
    /\ codec = "AV1"
    /\ packet.priority = "disposable"
    /\ ~packet.keyframe
    /\ packet = convert_to_encoder_packet(
                    codec, fps_den, dts_offset, frame_pts, surf_pts,
                    AMF_VIDEO_ENCODER_AV1_OUTPUT_FRAME_TYPE_SHOW_EXISTING,
                    NoPacket)

\* C19: dts_offset is non-zero only for an AVC encoder whose device reports
\* B-frame support and whose B_PIC_PATTERN and MAX_CONSECUTIVE_BPICTURES were
\* both read back after Init, and then it is the read-back pattern plus 1;
\* the dts of every delivered packet is the converted output timestamp minus
\* that offset.
C19_DtsOffset ==
    /\ dts_offset # 0
          => /\ codec = "AVC"
             /\ pkt_pc # "new"
             /\ dev.init_ok
             /\ dev.getcaps_ok /\ dev.cap_bframes
             /\ dev.pattern_ok /\ dev.max_ok
             /\ dts_offset = dev.b_frames + 1
    /\ (/\ pkt_pc \in {"created", "submitted", "converted"}
        /\ codec = "AVC"
        /\ dev.getcaps_ok /\ dev.cap_bframes
        /\ dev.pattern_ok /\ dev.max_ok)
          => dts_offset = dev.b_frames + 1
    /\ pkt_pc = "converted"
          => packet.dts = IntDiv(surf_pts * fps_den, AMF_SECOND) - dts_offset

\* Offset 2 (pattern 1) and a converted timestamp of 10 give 8.
C19_Witness ==
    /\ pkt_pc = "converted"
    /\ dev.b_frames = 1
    /\ dts_offset = 2
    /\ convert_to_obs_ts(fps_den, surf_pts) = 10
    /\ packet.dts = 8

(***************************************************************************)
(* Rate control                                                            *)
(***************************************************************************)

\* components/VideoEncoderVCE.h: AMF_VIDEO_ENCODER_RATE_CONTROL_METHOD_ENUM.
AMF_VIDEO_ENCODER_RATE_CONTROL_METHOD_CONSTANT_QP == 0

AMF_VIDEO_ENCODER_RATE_CONTROL_METHOD_CBR == 1

AMF_VIDEO_ENCODER_RATE_CONTROL_METHOD_PEAK_CONSTRAINED_VBR == 2

AMF_VIDEO_ENCODER_RATE_CONTROL_METHOD_LATENCY_CONSTRAINED_VBR == 3

AMF_VIDEO_ENCODER_RATE_CONTROL_METHOD_QUALITY_VBR == 4

AMF_VIDEO_ENCODER_RATE_CONTROL_METHOD_HIGH_QUALITY_VBR == 5

AMF_VIDEO_ENCODER_RATE_CONTROL_METHOD_HIGH_QUALITY_CBR == 6

\* components/VideoEncoderHEVC.h:
\* AMF_VIDEO_ENCODER_HEVC_RATE_CONTROL_METHOD_ENUM.
AMF_VIDEO_ENCODER_HEVC_RATE_CONTROL_METHOD_CONSTANT_QP == 0

AMF_VIDEO_ENCODER_HEVC_RATE_CONTROL_METHOD_LATENCY_CONSTRAINED_VBR == 1

AMF_VIDEO_ENCODER_HEVC_RATE_CONTROL_METHOD_PEAK_CONSTRAINED_VBR == 2

AMF_VIDEO_ENCODER_HEVC_RATE_CONTROL_METHOD_CBR == 3

AMF_VIDEO_ENCODER_HEVC_RATE_CONTROL_METHOD_QUALITY_VBR == 4

AMF_VIDEO_ENCODER_HEVC_RATE_CONTROL_METHOD_HIGH_QUALITY_VBR == 5

AMF_VIDEO_ENCODER_HEVC_RATE_CONTROL_METHOD_HIGH_QUALITY_CBR == 6

\* components/VideoEncoderAV1.h:
\* AMF_VIDEO_ENCODER_AV1_RATE_CONTROL_METHOD_ENUM.
AMF_VIDEO_ENCODER_AV1_RATE_CONTROL_METHOD_CONSTANT_QP == 0

AMF_VIDEO_ENCODER_AV1_RATE_CONTROL_METHOD_LATENCY_CONSTRAINED_VBR == 1

AMF_VIDEO_ENCODER_AV1_RATE_CONTROL_METHOD_PEAK_CONSTRAINED_VBR == 2

AMF_VIDEO_ENCODER_AV1_RATE_CONTROL_METHOD_CBR == 3

AMF_VIDEO_ENCODER_AV1_RATE_CONTROL_METHOD_QUALITY_VBR == 4

AMF_VIDEO_ENCODER_AV1_RATE_CONTROL_METHOD_HIGH_QUALITY_VBR == 5

AMF_VIDEO_ENCODER_AV1_RATE_CONTROL_METHOD_HIGH_QUALITY_CBR == 6

get_avc_rate_control(rc_str) ==
    IF astrcmpi(rc_str, "cqp")
    THEN AMF_VIDEO_ENCODER_RATE_CONTROL_METHOD_CONSTANT_QP
    ELSE IF astrcmpi(rc_str, "cbr")
    THEN AMF_VIDEO_ENCODER_RATE_CONTROL_METHOD_CBR
    ELSE IF astrcmpi(rc_str, "vbr")
    THEN AMF_VIDEO_ENCODER_RATE_CONTROL_METHOD_PEAK_CONSTRAINED_VBR
    ELSE IF astrcmpi(rc_str, "vbr_lat")
    THEN AMF_VIDEO_ENCODER_RATE_CONTROL_METHOD_LATENCY_CONSTRAINED_VBR
    ELSE IF astrcmpi(rc_str, "qvbr")
    THEN AMF_VIDEO_ENCODER_RATE_CONTROL_METHOD_QUALITY_VBR
    ELSE IF astrcmpi(rc_str, "hqvbr")
    THEN AMF_VIDEO_ENCODER_RATE_CONTROL_METHOD_HIGH_QUALITY_VBR
    ELSE IF astrcmpi(rc_str, "hqcbr")
    THEN AMF_VIDEO_ENCODER_RATE_CONTROL_METHOD_HIGH_QUALITY_CBR
    ELSE AMF_VIDEO_ENCODER_RATE_CONTROL_METHOD_CBR

get_hevc_rate_control(rc_str) ==
    IF astrcmpi(rc_str, "cqp")
    THEN AMF_VIDEO_ENCODER_HEVC_RATE_CONTROL_METHOD_CONSTANT_QP
    ELSE IF astrcmpi(rc_str, "vbr_lat")
    THEN AMF_VIDEO_ENCODER_HEVC_RATE_CONTROL_METHOD_LATENCY_CONSTRAINED_VBR
    ELSE IF astrcmpi(rc_str, "vbr")
    THEN AMF_VIDEO_ENCODER_HEVC_RATE_CONTROL_METHOD_PEAK_CONSTRAINED_VBR
    ELSE IF astrcmpi(rc_str, "cbr")
    THEN AMF_VIDEO_ENCODER_HEVC_RATE_CONTROL_METHOD_CBR
    ELSE IF astrcmpi(rc_str, "qvbr")
    THEN AMF_VIDEO_ENCODER_HEVC_RATE_CONTROL_METHOD_QUALITY_VBR
    ELSE IF astrcmpi(rc_str, "hqvbr")
    THEN AMF_VIDEO_ENCODER_HEVC_RATE_CONTROL_METHOD_HIGH_QUALITY_VBR
    ELSE IF astrcmpi(rc_str, "hqcbr")
    THEN AMF_VIDEO_ENCODER_HEVC_RATE_CONTROL_METHOD_HIGH_QUALITY_CBR
    ELSE AMF_VIDEO_ENCODER_HEVC_RATE_CONTROL_METHOD_CBR

get_av1_rate_control(rc_str) ==
    IF astrcmpi(rc_str, "cqp")
    THEN AMF_VIDEO_ENCODER_AV1_RATE_CONTROL_METHOD_CONSTANT_QP
    ELSE IF astrcmpi(rc_str, "vbr_lat")
    THEN AMF_VIDEO_ENCODER_AV1_RATE_CONTROL_METHOD_LATENCY_CONSTRAINED_VBR
    ELSE IF astrcmpi(rc_str, "vbr")
    THEN AMF_VIDEO_ENCODER_AV1_RATE_CONTROL_METHOD_PEAK_CONSTRAINED_VBR
    ELSE IF astrcmpi(rc_str, "cbr")
    THEN AMF_VIDEO_ENCODER_AV1_RATE_CONTROL_METHOD_CBR
    ELSE IF astrcmpi(rc_str, "qvbr")
    THEN AMF_VIDEO_ENCODER_AV1_RATE_CONTROL_METHOD_QUALITY_VBR
    ELSE IF astrcmpi(rc_str, "hqvbr")
    THEN AMF_VIDEO_ENCODER_AV1_RATE_CONTROL_METHOD_HIGH_QUALITY_VBR
    ELSE IF astrcmpi(rc_str, "hqcbr")
    THEN AMF_VIDEO_ENCODER_AV1_RATE_CONTROL_METHOD_HIGH_QUALITY_CBR
    ELSE AMF_VIDEO_ENCODER_AV1_RATE_CONTROL_METHOD_CBR

get_rate_control(c, rc_str) ==
    CASE c = "AVC" -> get_avc_rate_control(rc_str)
      [] c = "HEVC" -> get_hevc_rate_control(rc_str)
      [] c = "AV1" -> get_av1_rate_control(rc_str)

\* set_amf_property(enc, name, value) with the codec's own property name.
SetProperty(c, n, v) == [name |-> <<c, n>>, value |-> v]

amf_avc_update_data(rc, bitrate, qp) ==
    IF /\ rc # AMF_VIDEO_ENCODER_RATE_CONTROL_METHOD_CONSTANT_QP
       /\ rc # AMF_VIDEO_ENCODER_RATE_CONTROL_METHOD_QUALITY_VBR
    THEN <<SetProperty("AVC", "TARGET_BITRATE", bitrate),
           SetProperty("AVC", "PEAK_BITRATE", bitrate),
           SetProperty("AVC", "VBV_BUFFER_SIZE", bitrate)>>
         \o (IF rc = AMF_VIDEO_ENCODER_RATE_CONTROL_METHOD_CBR
             THEN <<SetProperty("AVC", "FILLER_DATA_ENABLE", TRUE)>>
             ELSE <<>>)
    ELSE <<SetProperty("AVC", "QP_I", qp),
           SetProperty("AVC", "QP_P", qp),
           SetProperty("AVC", "QP_B", qp),
           SetProperty("AVC", "QVBR_QUALITY_LEVEL", qp)>>

amf_hevc_update_data(rc, bitrate, qp) ==
    IF /\ rc # AMF_VIDEO_ENCODER_HEVC_RATE_CONTROL_METHOD_CONSTANT_QP
       /\ rc # AMF_VIDEO_ENCODER_HEVC_RATE_CONTROL_METHOD_QUALITY_VBR
    THEN <<SetProperty("HEVC", "TARGET_BITRATE", bitrate),
           SetProperty("HEVC", "PEAK_BITRATE", bitrate),
           SetProperty("HEVC", "VBV_BUFFER_SIZE", bitrate)>>
         \o (IF rc = AMF_VIDEO_ENCODER_HEVC_RATE_CONTROL_METHOD_CBR
             THEN <<SetProperty("HEVC", "FILLER_DATA_ENABLE", TRUE)>>
             ELSE <<>>)
    ELSE <<SetProperty("HEVC", "QP_I", qp),
           SetProperty("HEVC", "QP_P", qp),
           SetProperty("HEVC", "QVBR_QUALITY_LEVEL", qp)>>

\* Mutant: the Q-index is the configured level, not four times it.
amf_av1_update_data_unscaled(rc, bitrate, cq_value) ==
    IF /\ rc # AMF_VIDEO_ENCODER_AV1_RATE_CONTROL_METHOD_CONSTANT_QP
       /\ rc # AMF_VIDEO_ENCODER_AV1_RATE_CONTROL_METHOD_QUALITY_VBR
    THEN <<SetProperty("AV1", "TARGET_BITRATE", bitrate),
           SetProperty("AV1", "PEAK_BITRATE", bitrate),
           SetProperty("AV1", "VBV_BUFFER_SIZE", bitrate)>>
         \o (IF rc = AMF_VIDEO_ENCODER_RATE_CONTROL_METHOD_CBR
             THEN <<SetProperty("AV1", "FILLER_DATA", TRUE)>>
             ELSE IF \/ rc = AMF_VIDEO_ENCODER_RATE_CONTROL_METHOD_PEAK_CONSTRAINED_VBR
                     \/ rc = AMF_VIDEO_ENCODER_AV1_RATE_CONTROL_METHOD_HIGH_QUALITY_VBR
             THEN <<SetProperty("AV1", "PEAK_BITRATE", (bitrate * 3) \div 2)>>
             ELSE <<>>)
    ELSE LET qp == cq_value
         IN  <<SetProperty("AV1", "QVBR_QUALITY_LEVEL", qp \div 4),
               SetProperty("AV1", "Q_INDEX_INTRA", qp),
               SetProperty("AV1", "Q_INDEX_INTER", qp)>>

\* The CBR and Peak-Constrained-VBR tests of the bitrate branch compare rc
\* with the constants of the AVC enumeration; bitrate * 1.5 is exact for the
\* even bitrates of the model.
amf_av1_update_data(rc, bitrate, cq_value) ==
    IF /\ rc # AMF_VIDEO_ENCODER_AV1_RATE_CONTROL_METHOD_CONSTANT_QP
       /\ rc # AMF_VIDEO_ENCODER_AV1_RATE_CONTROL_METHOD_QUALITY_VBR
    THEN <<SetProperty("AV1", "TARGET_BITRATE", bitrate),
           SetProperty("AV1", "PEAK_BITRATE", bitrate),
           SetProperty("AV1", "VBV_BUFFER_SIZE", bitrate)>>
         \o (IF rc = AMF_VIDEO_ENCODER_RATE_CONTROL_METHOD_CBR
             THEN <<SetProperty("AV1", "FILLER_DATA", TRUE)>>
             ELSE IF \/ rc = AMF_VIDEO_ENCODER_RATE_CONTROL_METHOD_PEAK_CONSTRAINED_VBR
                     \/ rc = AMF_VIDEO_ENCODER_AV1_RATE_CONTROL_METHOD_HIGH_QUALITY_VBR
             THEN <<SetProperty("AV1", "PEAK_BITRATE", (bitrate * 3) \div 2)>>
             ELSE <<>>)
    ELSE LET qp == cq_value * 4
         IN  <<SetProperty("AV1", "QVBR_QUALITY_LEVEL", qp \div 4),
               SetProperty("AV1", "Q_INDEX_INTRA", qp),
               SetProperty("AV1", "Q_INDEX_INTER", qp)>>

update_data(c, rc, bitrate, qp) ==
    CASE c = "AVC" -> amf_avc_update_data(rc, bitrate, qp)
      [] c = "HEVC" -> amf_hevc_update_data(rc, bitrate, qp)
      [] c = "AV1" -> amf_av1_update_data(rc, bitrate, qp)

\* The property names of a sequence of writes.
Names(ws) == [i \in 1..Len(ws) |-> ws[i].name[2]]

(***************************************************************************)
(* Configuration of a new encoder: the property writes of                  *)
(* amf_*_create_internal and amf_*_init up to AMFComponent::Init.          *)
(***************************************************************************)

MaxOpts == 1

\* The value every computed write but QUALITY_PRESET has in the log, and the
\* value every custom option has.
ComputedValue == "computed"

CustomValue == "custom"

\* set_avc_property / set_hevc_property / set_av1_property(enc, name, ...):
\* the property name is the codec's own.
Write(c, n) == [name |-> <<c, n>>, value |-> ComputedValue]

WriteAll(c, names) == [i \in 1..Len(names) |-> Write(c, names[i])]

is_pq(v) == v.transfer = "pq"

is_hlg(v) == v.transfer = "hlg"

\* (amf_uint16)(num * 50000 / den)
amf_hdr_primary(num, den) == ((num * 50000) \div den) % 65536

lum_mul == 10000

amf_make_lum(val) == val * lum_mul

\* Mutant: HLG takes the nominal peak level of the host as PQ does.
HdrMetadata_host_peak(v) ==
    LET hdr_nominal_peak_level == v.nominal_peak
    IN  [redPrimary |-> <<amf_hdr_primary(17, 25), amf_hdr_primary(8, 25)>>,
         greenPrimary |-> <<amf_hdr_primary(53, 200),
                            amf_hdr_primary(69, 100)>>,
         bluePrimary |-> <<amf_hdr_primary(3, 20), amf_hdr_primary(3, 50)>>,
         whitePoint |-> <<amf_hdr_primary(3127, 10000),
                          amf_hdr_primary(329, 1000)>>,
         minMasteringLuminance |-> 0,
         maxMasteringLuminance |-> amf_make_lum(hdr_nominal_peak_level),
         maxContentLightLevel |-> hdr_nominal_peak_level,
         maxFrameAverageLightLevel |-> hdr_nominal_peak_level]

\* The AMFHDRMetadata amf_hevc_create_internal fills when is_hdr.
HdrMetadata(v) ==
    LET hdr_nominal_peak_level ==
            IF is_pq(v) THEN v.nominal_peak
            ELSE IF is_hlg(v) THEN 1000 ELSE 0
    IN  [redPrimary |-> <<amf_hdr_primary(17, 25), amf_hdr_primary(8, 25)>>,
         greenPrimary |-> <<amf_hdr_primary(53, 200),
                            amf_hdr_primary(69, 100)>>,
         bluePrimary |-> <<amf_hdr_primary(3, 20), amf_hdr_primary(3, 50)>>,
         whitePoint |-> <<amf_hdr_primary(3127, 10000),
                          amf_hdr_primary(329, 1000)>>,
         minMasteringLuminance |-> 0,
         maxMasteringLuminance |-> amf_make_lum(hdr_nominal_peak_level),
         maxContentLightLevel |-> hdr_nominal_peak_level,
         maxFrameAverageLightLevel |-> hdr_nominal_peak_level]

\* if (is_hdr) { ... set_hevc_property(enc, INPUT_HDR_METADATA, buf); }
\* of amf_hevc_create_internal; the other two codecs have no such block.
HdrWrites(c, v) ==
    IF c = "HEVC" /\ (is_pq(v) \/ is_hlg(v))
    THEN <<SetProperty("HEVC", "INPUT_HDR_METADATA", HdrMetadata(v))>>
    ELSE <<>>

\* The writes of amf_*_create_internal before it calls amf_*_init.
CreateWrites(c, p, v) ==
    CASE c = "AVC" ->
           WriteAll(c, <<"FRAMESIZE", "USAGE">>)
           \o <<SetQualityPreset(c, get_avc_preset(p))>>
           \o WriteAll(c, <<"PROFILE", "LOWLATENCY_MODE", "CABAC_ENABLE",
                            "PREENCODE_ENABLE", "OUTPUT_COLOR_PROFILE",
                            "OUTPUT_TRANSFER_CHARACTERISTIC",
                            "OUTPUT_COLOR_PRIMARIES", "FULL_RANGE_COLOR">>)
      [] c = "HEVC" ->
           WriteAll(c, <<"FRAMESIZE", "USAGE">>)
           \o <<SetQualityPreset(c, get_hevc_preset(p))>>
           \o WriteAll(c, <<"COLOR_BIT_DEPTH", "PROFILE", "LOWLATENCY_MODE",
                            "OUTPUT_COLOR_PROFILE",
                            "OUTPUT_TRANSFER_CHARACTERISTIC",
                            "OUTPUT_COLOR_PRIMARIES", "NOMINAL_RANGE">>)
           \o WriteAll(c, Names(HdrWrites(c, v)))
      [] c = "AV1" ->
           WriteAll(c, <<"FRAMESIZE", "USAGE", "ALIGNMENT_MODE">>)
           \o <<SetQualityPreset(c, get_av1_preset(p))>>
           \o WriteAll(c, <<"COLOR_BIT_DEPTH", "PROFILE",
                            "ENCODING_LATENCY_MODE", "OUTPUT_COLOR_PROFILE",
                            "OUTPUT_TRANSFER_CHARACTERISTIC",
                            "OUTPUT_COLOR_PRIMARIES">>)

\* Mutant: the frame rate is truncated before it multiplies keyint_sec.
gop_size_divides_first(keyint_sec, num, den) ==
    IF keyint_sec # 0 THEN keyint_sec * (num \div den) ELSE 250

\* int gop_size = (keyint_sec) ? keyint_sec * enc->fps_num / enc->fps_den
\*                              : 250;
gop_size(keyint_sec, num, den) ==
    IF keyint_sec # 0 THEN (keyint_sec * num) \div den ELSE 250

\* amf_avc_init up to check_preset_compatibility.
amf_avc_init(bframes, st, num, den) ==
    LET rc == get_avc_rate_control(st.rate_control)
        gop == gop_size(st.keyint_sec, num, den)
    IN  (IF bframes
         THEN <<SetProperty("AVC", "MAX_CONSECUTIVE_BPICTURES", 3),
                SetProperty("AVC", "B_PIC_PATTERN", st.bf)>>
         ELSE <<>>)
        \o <<SetProperty("AVC", "RATE_CONTROL_METHOD", rc)>>
        \o (IF rc # AMF_VIDEO_ENCODER_RATE_CONTROL_METHOD_CONSTANT_QP
            THEN <<SetProperty("AVC", "ENABLE_VBAQ", TRUE)>>
            ELSE <<>>)
        \o amf_avc_update_data(rc, st.bitrate * 1000, st.cqp)
        \o <<SetProperty("AVC", "ENFORCE_HRD", TRUE),
              SetProperty("AVC", "HIGH_MOTION_QUALITY_BOOST_ENABLE", FALSE),
              SetProperty("AVC", "IDR_PERIOD", gop)>>
        \o (IF st.repeat_headers
            THEN <<SetProperty("AVC", "HEADER_INSERTION_SPACING", gop)>>
            ELSE <<>>)
        \o <<SetProperty("AVC", "DE_BLOCKING_FILTER", TRUE)>>

\* amf_hevc_init up to check_preset_compatibility.
amf_hevc_init(st, num, den) ==
    LET rc == get_hevc_rate_control(st.rate_control)
    IN  <<SetProperty("HEVC", "RATE_CONTROL_METHOD", rc)>>
        \o (IF rc # AMF_VIDEO_ENCODER_HEVC_RATE_CONTROL_METHOD_CONSTANT_QP
            THEN <<SetProperty("HEVC", "ENABLE_VBAQ", TRUE)>>
            ELSE <<>>)
        \o amf_hevc_update_data(rc, st.bitrate * 1000, st.cqp)
        \o <<SetProperty("HEVC", "ENFORCE_HRD", TRUE),
              SetProperty("HEVC", "HIGH_MOTION_QUALITY_BOOST_ENABLE", FALSE),
              SetProperty("HEVC", "GOP_SIZE",
                          gop_size(st.keyint_sec, num, den))>>

\* amf_av1_init up to the ffmpeg_opts loop.
amf_av1_init(st, num, den) ==
    LET rc == get_av1_rate_control(st.rate_control)
    IN  <<SetProperty("AV1", "RATE_CONTROL_METHOD", rc)>>
        \o amf_av1_update_data(rc, st.bitrate * 1000, st.cqp)
        \o <<SetProperty("AV1", "ENFORCE_HRD", TRUE),
              SetProperty("AV1", "GOP_SIZE",
                          gop_size(st.keyint_sec, num, den))>>

amf_init(c, bframes, st, num, den) ==
    CASE c = "AVC" -> amf_avc_init(bframes, st, num, den)
      [] c = "HEVC" -> amf_hevc_init(st, num, den)
      [] c = "AV1" -> amf_av1_init(st, num, den)

\* The writes of amf_*_init before check_preset_compatibility and the
\* ffmpeg_opts loop, by name.
InitWrites(c, bframes, st) ==
    WriteAll(c, Names(amf_init(c, bframes, st, ovi.fps_num, fps_den)))

\* for (i < opts.count) amf_apply_opt(enc, &opts.options[i]): each option
\* sets the property of that name in the codec's namespace.
ApplyOptions(ps, c, opts) ==
    ps \o [i \in 1..Len(opts) |-> [name |-> <<c, opts[i]>>,
                                   value |-> CustomValue]]

\* The tail of amf_*_init: AVC and HEVC downgrade the preset and then apply
\* the options; AV1 applies the options and then downgrades the preset.
InitTail(st, opts, a1, a2, a3) ==
    IF st.codec = "AV1"
    THEN check_preset_compatibility(
             [st EXCEPT !.props = ApplyOptions(@, st.codec, opts)],
             a1, a2, a3)
    ELSE LET out == check_preset_compatibility(st, a1, a2, a3)
         IN  [out EXCEPT !.props = ApplyOptions(@, st.codec, opts)]

\* The keys a user gives in ffmpeg_opts, by the property they name.
OptionNames == {"QUALITY_PRESET", "ENFORCE_HRD"}

OptionLists ==
    UNION {[1..n -> OptionNames] : n \in 0..MaxOpts}

\* The settings that reach a branch of the codec's configuration.
SettingsOf(c) ==
    {st \in [rate_control : {"CBR", "CQP", "VBR", "VBR_LAT"},
             bitrate : {NoSettings.bitrate}, cqp : {NoSettings.cqp},
             keyint_sec : {NoSettings.keyint_sec}, bf : {NoSettings.bf},
             repeat_headers : BOOLEAN, ffmpeg_opts : OptionLists] :
        /\ st.repeat_headers => c = "AVC"
        /\ st.rate_control \in {"VBR", "VBR_LAT"} => c = "AV1"}

\* SDR for every codec and PQ at 1000 nits for HEVC.
VideoOf(c) ==
    {NoVideo}
    \cup (IF c = "HEVC"
          THEN {[NoVideo EXCEPT !.transfer = "pq", !.nominal_peak = 1000]}
          ELSE {})

\* The "preset" settings the properties page offers.
ConfigurePresets == {"highQuality", "quality", "balanced", "speed"}

InitConfigure ==
    /\ codec \in Codecs
    /\ preset \in ConfigurePresets
    /\ max_throughput \in 0..MaxThroughput
    /\ throughput \in 0..MaxThroughput
    /\ props = <<>>
    /\ caps_seen = <<>>
    /\ preset_in = preset
    /\ max_in = max_throughput
    /\ cfg_pc = "start"
    /\ settings \in SettingsOf(codec)
    /\ ovi \in VideoOf(codec)
    /\ IdleCreate
    /\ IdleEnc
    /\ helper_out = [kind |-> "empty", sections |-> <<>>]
    /\ load_fail = "none"
    /\ enable_hevc = TRUE
    /\ registered = <<>>
    /\ load_exc = "none"
    /\ load_escaped = FALSE
    /\ load_pc = "start"
    /\ pool_log = <<>>
    /\ gpu = NoGpu
    /\ vkctx = NoVkCtx
    /\ fb = NoFallback
    /\ gltex = NoGlTex
    /\ fps_den = 1
    /\ bframes_supported \in (IF codec = "AVC" THEN BOOLEAN ELSE {FALSE})
    /\ dts_offset = 0
    /\ dev = NoDevice
    /\ frame_pts = 0
    /\ surf_pts = 0
    /\ packet = NoPacket
    /\ pkt_pc = "new"

\* amf_*_create_internal from its first property write to the return of
\* amf_*_init.
ConfigureEncoder ==
    /\ cfg_pc = "start"
    /\ \E a1, a2, a3 \in CapsAnswers :
         LET written == CreateWrites(codec, preset, ovi)
                        \o InitWrites(codec, bframes_supported, settings)
             out == InitTail(CfgState(codec, preset, max_throughput,
                                      throughput, props \o written,
                                      caps_seen),
                             settings.ffmpeg_opts, a1, a2, a3)
         IN /\ preset' = out.preset
            /\ max_throughput' = out.max_throughput
            /\ props' = out.props
            /\ caps_seen' = out.caps_seen
    /\ cfg_pc' = "configured"
    /\ UNCHANGED <<codec, throughput, preset_in, max_in, settings, ovi>>
    /\ UNCHANGED <<varsCreate, varsEnc, varsLoad, varsPoolLog, varsPacket>>

\* res = enc->amf_encoder->Init(...); on success FRAMERATE is written.
InitComponent ==
    /\ cfg_pc = "configured"
    /\ \E ok \in BOOLEAN :
          IF ok
          THEN /\ props' = Append(props, Write(codec, "FRAMERATE"))
               /\ cfg_pc' = "initialised"
          ELSE /\ props' = props
               /\ cfg_pc' = "init_failed"
    /\ UNCHANGED <<codec, preset, max_throughput, throughput, caps_seen,
                   preset_in, max_in, settings, ovi>>
    /\ UNCHANGED <<varsCreate, varsEnc, varsLoad, varsPoolLog, varsPacket>>

NextConfigure == ConfigureEncoder \/ InitComponent

SpecConfigure == InitConfigure /\ [][NextConfigure]_vars

(***************************************************************************)
(* Claims about the configuration of a new encoder.                        *)
(***************************************************************************)

IsCustom(i) == props[i].value = CustomValue

\* C20: for every codec the ffmpeg_opts overrides are applied after every
\* structured property write, the QUALITY_PRESET writes of the preset
\* downgrade included, so that no property set by a custom option is
\* overwritten by computed configuration before the encoder component is
\* initialised.
C20_OptionsAfterStructuredWrites ==
    cfg_pc = "configured" =>
        \A i, j \in 1..Len(props) :
            (IsCustom(i) /\ i < j) => IsCustom(j)

(***************************************************************************)
(* The values a new encoder is configured with: amf_create_encoder,        *)
(* amf_*_create_internal and amf_*_init, by the value of every property    *)
(* that depends on the settings or on the video output.                    *)
(***************************************************************************)

macroblock_size == 16

\* Mutant: the frame rate is truncated before it multiplies the macroblocks.
calc_throughput_divides_first(cx, cy, num, den) ==
    LET mb_cx == (cx + (macroblock_size - 1)) \div macroblock_size
        mb_cy == (cy + (macroblock_size - 1)) \div macroblock_size
        mb_frame == mb_cx * mb_cy
    IN  mb_frame * (num \div den)

calc_throughput(cx, cy, num, den) ==
    LET mb_cx == (cx + (macroblock_size - 1)) \div macroblock_size
        mb_cy == (cy + (macroblock_size - 1)) \div macroblock_size
        mb_frame == mb_cx * mb_cy
    IN  (mb_frame * num) \div den

\* The "rate_control" strings: the seven of the properties page, and one the
\* page does not offer.
RateControlStrings ==
    {"CBR", "CQP", "VBR", "VBR_LAT", "QVBR", "HQVBR", "HQCBR", "bogus"}

\* "cqp" is an integer of 0..51, or of 0..63 for AV1.
QpLevels(c) == {0, 20, 51} \cup (IF c = "AV1" THEN {63} ELSE {})

\* The settings of the properties page, by the fields amf_*_init reads.
SettingsValues(c) ==
    {st \in [rate_control : RateControlStrings, bitrate : {2500, 5000},
             cqp : QpLevels(c), keyint_sec : {0, 1, 2, 10}, bf : {0, 2},
             repeat_headers : BOOLEAN, ffmpeg_opts : {<<>>}] :
        /\ st.repeat_headers => c = "AVC"
        /\ st.bf # 0 => c = "AVC"}

\* Width and height of the encoder, in pixels.
FrameSizes == {<<1920, 1080>>, <<100, 16>>, <<16, 100>>, <<1, 1>>}

\* obs_video_info::fps_num and fps_den.
FrameRates == {<<60, 1>>, <<30000, 1001>>, <<30, 2>>, <<10, 3>>}

\* The transfer characteristic of the output and the nominal peak level of
\* the host: AVC is created for SDR only.
Transfers(c) ==
    {<<"sdr", 300>>}
    \cup (IF c = "AVC" THEN {}
          ELSE {<<"pq", 1000>>, <<"pq", 400>>, <<"hlg", 300>>})

InitSettings ==
    /\ codec \in Codecs
    /\ \E size \in FrameSizes, rate \in FrameRates, t \in Transfers(codec) :
          /\ ovi = [width |-> size[1], height |-> size[2],
                    fps_num |-> rate[1], transfer |-> t[1],
                    nominal_peak |-> t[2]]
          /\ fps_den = rate[2]
    /\ bframes_supported \in (IF codec = "AVC" THEN BOOLEAN ELSE {FALSE})
    /\ settings = NoSettings
    /\ preset = "quality"
    /\ max_throughput = 0
    /\ throughput = 0
    /\ props = <<>>
    /\ caps_seen = <<>>
    /\ preset_in = preset
    /\ max_in = max_throughput
    /\ cfg_pc = "start"
    /\ dts_offset = 0
    /\ dev = NoDevice
    /\ frame_pts = 0
    /\ surf_pts = 0
    /\ packet = NoPacket
    /\ pkt_pc = "new"
    /\ IdleCreate
    /\ IdleEnc
    /\ helper_out = [kind |-> "empty", sections |-> <<>>]
    /\ load_fail = "none"
    /\ enable_hevc = TRUE
    /\ load_pc = "start"
    /\ registered = <<>>
    /\ load_exc = "none"
    /\ load_escaped = FALSE
    /\ pool_log = <<>>
    /\ gpu = NoGpu
    /\ vkctx = NoVkCtx
    /\ fb = NoFallback
    /\ gltex = NoGlTex

varsSettingsRest ==
    <<codec, preset, max_throughput, caps_seen, preset_in, max_in, ovi,
      varsCreate, varsEnc, varsLoad, varsPoolLog, varsPacket>>

\* The end of amf_create_encoder: calc_throughput(enc).
CalcThroughput ==
    /\ cfg_pc = "start"
    /\ throughput' = calc_throughput(ovi.width, ovi.height, ovi.fps_num,
                                     fps_den)
    /\ cfg_pc' = "sized"
    /\ UNCHANGED <<props, settings>>
    /\ UNCHANGED varsSettingsRest

\* amf_*_create_internal up to its call of amf_*_init.
CreateProperties ==
    /\ cfg_pc = "sized"
    /\ props' = HdrWrites(codec, ovi)
    /\ cfg_pc' = "created"
    /\ UNCHANGED <<throughput, settings>>
    /\ UNCHANGED varsSettingsRest

\* amf_*_init up to check_preset_compatibility and the ffmpeg_opts loop,
\* with the settings the host passes.
InitProperties ==
    /\ cfg_pc = "created"
    /\ \E st \in SettingsValues(codec) :
          /\ settings' = st
          /\ props' = props \o amf_init(codec, bframes_supported, st,
                                        ovi.fps_num, fps_den)
    /\ cfg_pc' = "set"
    /\ UNCHANGED throughput
    /\ UNCHANGED varsSettingsRest

NextSettings == CalcThroughput \/ CreateProperties \/ InitProperties

SpecSettings == InitSettings /\ [][NextSettings]_vars

(***************************************************************************)
(* Claims about the values a new encoder is configured with.               *)
(***************************************************************************)

\* The values written to the property n of the codec, in the order written.
ValuesOf(n) ==
    LET ws == SelectSeq(props, LAMBDA w : w.name = <<codec, n>>)
    IN  [i \in 1..Len(ws) |-> ws[i].value]

\* The mode the "rate_control" string of the settings selects: the string in
\* lower case when it is one of the seven, and "cbr" for any other string.
ModeOf(rc_str) ==
    IF ToLower(rc_str) \in {"cqp", "cbr", "vbr", "vbr_lat", "qvbr", "hqvbr",
                            "hqcbr"}
    THEN ToLower(rc_str)
    ELSE "cbr"

Mode == ModeOf(settings.rate_control)

QpMode == Mode \in {"cqp", "qvbr"}

\* The per-frame-type QP properties of the codec.
QpProperties ==
    CASE codec = "AVC" -> {"QP_I", "QP_P", "QP_B"}
      [] codec = "HEVC" -> {"QP_I", "QP_P"}
      [] codec = "AV1" -> {"Q_INDEX_INTRA", "Q_INDEX_INTER"}

BitrateProperties == {"TARGET_BITRATE", "PEAK_BITRATE", "VBV_BUFFER_SIZE"}

FillerProperty == IF codec = "AV1" THEN "FILLER_DATA" ELSE "FILLER_DATA_ENABLE"

\* The value the QP properties take for the configured level.
QpValue == IF codec = "AV1" THEN 4 * settings.cqp ELSE settings.cqp

\* C21: for each codec and every mode the rate-control data step, with a
\* mode other than Constant-QP and Quality-VBR, sets target bitrate, peak
\* bitrate and VBV buffer size to bitrate_kbps * 1000 and sets no QP
\* property, and with CBR also enables filler data; with Constant-QP or
\* Quality-VBR it sets the QP and quality-level properties to the configured
\* level and sets none of the bitrate, VBV or filler properties.
C21_RateControlData ==
    cfg_pc = "set" =>
        IF ~QpMode
        THEN /\ \A n \in BitrateProperties :
                  /\ ValuesOf(n) # <<>>
                  /\ Head(ValuesOf(n)) = settings.bitrate * 1000
             /\ \A n \in QpProperties \cup {"QVBR_QUALITY_LEVEL"} :
                  ValuesOf(n) = <<>>
             /\ Mode = "cbr" => ValuesOf(FillerProperty) = <<TRUE>>
        ELSE /\ \A n \in QpProperties : ValuesOf(n) = <<QpValue>>
             /\ ValuesOf("QVBR_QUALITY_LEVEL") = <<settings.cqp>>
             /\ \A n \in BitrateProperties \cup {FillerProperty} :
                  ValuesOf(n) = <<>>

\* C22: for an AV1 encoder filler data is enabled exactly when the mode is
\* CBR (the string "cbr" or an unrecognised string), and the peak bitrate is
\* raised to 1.5 times the target exactly when the mode is Peak-Constrained
\* VBR or High-Quality VBR; for the other bitrate-based modes filler data is
\* not set and the peak bitrate equals the target.
C22_Av1FillerAndPeak ==
    (cfg_pc = "set" /\ codec = "AV1" /\ ~QpMode) =>
        LET target == settings.bitrate * 1000
            peak == ValuesOf("PEAK_BITRATE")
        IN  /\ (ValuesOf("FILLER_DATA") = <<TRUE>>) <=> (Mode = "cbr")
            /\ ValuesOf("FILLER_DATA") \in {<<>>, <<TRUE>>}
            /\ peak[Len(peak)] = IF Mode \in {"vbr", "hqvbr"}
                                 THEN (target * 3) \div 2
                                 ELSE target

\* C24: for every AV1 quality value q of 0..63 under Constant-QP or
\* Quality-VBR the intra and inter Q-index properties are both set to 4 * q
\* and the QVBR quality level to q, and the Q-index does not exceed 255.
C24_Av1QIndex ==
    (cfg_pc = "set" /\ codec = "AV1" /\ QpMode) =>
        /\ ValuesOf("Q_INDEX_INTRA") = <<4 * settings.cqp>>
        /\ ValuesOf("Q_INDEX_INTER") = <<4 * settings.cqp>>
        /\ ValuesOf("QVBR_QUALITY_LEVEL") = <<settings.cqp>>
        /\ 4 * settings.cqp <= 255

\* An AV1 encoder at Constant-QP with level 20: Q-index 80, level 20.
C24_Witness ==
    /\ cfg_pc = "set"
    /\ codec = "AV1"
    /\ settings.rate_control = "CQP"
    /\ settings.cqp = 20
    /\ ValuesOf("Q_INDEX_INTRA") = <<80>>
    /\ ValuesOf("Q_INDEX_INTER") = <<80>>
    /\ ValuesOf("QVBR_QUALITY_LEVEL") = <<20>>

\* The least k with a <= k * b, for a >= 1 and b >= 1.
CeilDiv(a, b) == CHOOSE k \in 1..a : (k - 1) * b < a /\ a <= k * b

\* C25: for every width and height >= 1 and every frame rate with
\* fps_den >= 1, calc_throughput sets the required throughput to
\* ceil(width / 16) * ceil(height / 16) * fps_num / fps_den, the
\* multiplication done before the truncating division.
C25_Throughput ==
    cfg_pc # "start" =>
        throughput = (CeilDiv(ovi.width, 16) * CeilDiv(ovi.height, 16)
                      * ovi.fps_num) \div fps_den

\* 1920x1080 at 60/1: 120 * 68 = 8160 macroblocks, throughput 489600.
C25_Witness ==
    /\ cfg_pc = "sized"
    /\ ovi.width = 1920
    /\ ovi.height = 1080
    /\ ovi.fps_num = 60
    /\ fps_den = 1
    /\ CeilDiv(ovi.width, 16) * CeilDiv(ovi.height, 16) = 8160
    /\ throughput = 489600

\* The property the GOP size is applied as.
GopProperty == IF codec = "AVC" THEN "IDR_PERIOD" ELSE "GOP_SIZE"

ExpectedGop ==
    IF settings.keyint_sec = 0
    THEN 250
    ELSE (settings.keyint_sec * ovi.fps_num) \div fps_den

\* C26: for every codec, every keyint_sec of 0..10 and every frame rate the
\* GOP size applied is 250 when keyint_sec is 0 and
\* keyint_sec * fps_num / fps_den otherwise (multiplication first, truncating
\* division); AVC applies it as the IDR period and, only when repeat_headers
\* is requested, as the header-insertion spacing too.
C26_GopSize ==
    cfg_pc = "set" =>
        /\ ValuesOf(GopProperty) = <<ExpectedGop>>
        /\ ValuesOf("HEADER_INSERTION_SPACING")
               = IF codec = "AVC" /\ settings.repeat_headers
                 THEN <<ExpectedGop>>
                 ELSE <<>>
        /\ codec = "AVC" => ValuesOf("GOP_SIZE") = <<>>

\* An AVC encoder at 30000/1001 with repeat_headers and keyint_sec 2:
\* 60000 / 1001 = 59 for both properties.
C26_Witness ==
    /\ cfg_pc = "set"
    /\ codec = "AVC"
    /\ settings.keyint_sec = 2
    /\ settings.repeat_headers
    /\ ovi.fps_num = 30000
    /\ fps_den = 1001
    /\ ValuesOf("IDR_PERIOD") = <<59>>
    /\ ValuesOf("HEADER_INSERTION_SPACING") = <<59>>

\* a / b rounded to the nearest integer.
RoundDiv(a, b) == (2 * a + b) \div (2 * b)

\* The chromaticity fractions of the metadata, by field and index.
Chromaticities ==
    [redPrimary |-> <<(<<17, 25>>), (<<8, 25>>)>>,
     greenPrimary |-> <<(<<53, 200>>), (<<69, 100>>)>>,
     bluePrimary |-> <<(<<3, 20>>), (<<3, 50>>)>>,
     whitePoint |-> <<(<<3127, 10000>>), (<<329, 1000>>)>>]

HdrPeak == IF ovi.transfer = "pq" THEN ovi.nominal_peak ELSE 1000

\* C27: HDR static metadata is built only for an HEVC encoder whose transfer
\* characteristic is PQ or HLG; its peak is the nominal peak level of the
\* host for PQ and 1000 for HLG, the maximum mastering luminance is
\* peak * 10000, the minimum is 0, the content and frame-average light
\* levels are the peak, and each of the eight chromaticity values is
\* round(num * 50000 / den) of its fraction and fits in 16 bits.
C27_HdrMetadata ==
    cfg_pc \in {"created", "set"} =>
        LET mds == ValuesOf("INPUT_HDR_METADATA")
        IN  IF codec = "HEVC" /\ ovi.transfer \in {"pq", "hlg"}
            THEN /\ Len(mds) = 1
                 /\ mds[1].maxMasteringLuminance = HdrPeak * 10000
                 /\ mds[1].minMasteringLuminance = 0
                 /\ mds[1].maxContentLightLevel = HdrPeak
                 /\ mds[1].maxFrameAverageLightLevel = HdrPeak
                 /\ \A f \in DOMAIN Chromaticities : \A i \in 1..2 :
                      LET frac == Chromaticities[f][i]
                      IN  /\ mds[1][f][i] = RoundDiv(frac[1] * 50000, frac[2])
                          /\ mds[1][f][i] < 65536
            ELSE /\ mds = <<>>
                 /\ \A i \in 1..Len(props) :
                      props[i].name[2] # "INPUT_HDR_METADATA"

\* An HEVC encoder for HLG on a host whose nominal peak level is 300: the
\* peak is 1000, the maximum mastering luminance 10,000,000, and the red
\* and white x values are 34000 and 15635.
C27_Witness ==
    /\ cfg_pc = "created"
    /\ codec = "HEVC"
    /\ ovi.transfer = "hlg"
    /\ ovi.nominal_peak = 300
    /\ ValuesOf("INPUT_HDR_METADATA") # <<>>
    /\ ValuesOf("INPUT_HDR_METADATA")[1].maxMasteringLuminance = 10000000
    /\ ValuesOf("INPUT_HDR_METADATA")[1].maxContentLightLevel = 1000
    /\ ValuesOf("INPUT_HDR_METADATA")[1].redPrimary[1] = 34000
    /\ ValuesOf("INPUT_HDR_METADATA")[1].whitePoint[1] = 15635

(***************************************************************************)
(* Settings updates of a created encoder: the host calls the update        *)
(* callback of the encoder's descriptor when it has one.                   *)
(***************************************************************************)

\* Mutant: the assignments of register_avc, register_hevc and register_av1
\* that are commented out.
info_update_wired(id) ==
    CASE id \in {"h264_texture_amf", "h264_fallback_amf"} -> "amf_avc_update"
      [] id \in {"h265_texture_amf", "h265_fallback_amf"} -> "amf_hevc_update"
      [] id \in {"av1_texture_amf", "av1_fallback_amf"} -> "amf_av1_update"

\* obs_encoder_info::update of the descriptor registered as id: the
\* descriptor is value-initialised, its update is never assigned, and the
\* fallback registration reuses the descriptor of the texture registration.
info_update(id) ==
    CASE id \in {"h264_texture_amf", "h264_fallback_amf"} -> "none"
      [] id \in {"h265_texture_amf", "h265_fallback_amf"} -> "none"
      [] id \in {"av1_texture_amf", "av1_fallback_amf"} -> "none"

\* The descriptors of a codec.
EncoderIds(c) ==
    LET ids == CASE c = "AVC" -> register_avc
                 [] c = "HEVC" -> register_hevc
                 [] c = "AV1" -> register_av1
    IN  {ids[i] : i \in DOMAIN ids}

\* The settings a running encoder is updated with.
UpdateSettings(c) ==
    {st \in SettingsValues(c) :
        /\ st.bf = 0
        /\ ~st.repeat_headers
        /\ st.keyint_sec \in {0, 2}}

\* A created encoder with the default settings, first_update still true.
InitUpdate ==
    /\ codec \in Codecs
    /\ ovi = NoVideo
    /\ settings = NoSettings
    /\ preset = "quality"
    /\ max_throughput = 0
    /\ throughput = calc_throughput(ovi.width, ovi.height, ovi.fps_num, 1)
    /\ props = amf_init(codec, FALSE, settings, ovi.fps_num, 1)
    /\ caps_seen = <<>>
    /\ preset_in = preset
    /\ max_in = max_throughput
    /\ cfg_pc = "set"
    /\ IdleCreate
    /\ IdleEnc
    /\ IdleLoad

\* amf_avc_update, amf_hevc_update and amf_av1_update: the first call only
\* clears first_update; a later one applies the rate-control data and
\* re-initialises the component.
amf_update(st) ==
    IF cfg_pc = "set"
    THEN /\ cfg_pc' = "first_update_done"
         /\ props' = props
    ELSE /\ props' = props \o update_data(codec,
                                  get_rate_control(codec, st.rate_control),
                                  st.bitrate * 1000, st.cqp)
         /\ cfg_pc' = "reinitialised"

\* The host changes the settings of the encoder: it stores them and calls
\* the update callback of the descriptor if there is one.
HostUpdate ==
    /\ cfg_pc \in {"set", "first_update_done", "reinitialised"}
    /\ \E id \in EncoderIds(codec), st \in UpdateSettings(codec) :
          /\ st # settings
          /\ settings' = st
          /\ IF info_update(id) = "none"
             THEN UNCHANGED <<props, cfg_pc>>
             ELSE amf_update(st)
    /\ UNCHANGED <<throughput, varsSettingsRest>>

NextUpdate == HostUpdate

SpecUpdate == InitUpdate /\ [][NextUpdate]_vars

\* C23: none of the six registered encoder descriptors has a settings-update
\* callback, so after an encoder is created no change of the host's settings
\* leads to a property write on the vendor encoder or to its
\* re-initialisation.
C23_NoUpdateAfterCreation ==
    /\ [](\A c \in Codecs : \A id \in EncoderIds(c) : info_update(id) = "none")
    /\ [][settings' # settings => (props' = props /\ cfg_pc' = cfg_pc)]_vars

\* The settings of a CBR encoder at 2500 Kbps were changed to Constant-QP at
\* 5000 Kbps; the encoder still has the one target bitrate it was created
\* with and no QP write.
C23_Witness ==
    /\ cfg_pc = "set"
    /\ codec = "AVC"
    /\ settings.rate_control = "CQP"
    /\ settings.bitrate = 5000
    /\ ValuesOf("TARGET_BITRATE") = <<2500000>>
    /\ ValuesOf("QP_I") = <<>>

(***************************************************************************)
(* The GPU synchronisation of a texture encode call: amf_encode_tex2       *)
(* (Vulkan/OpenGL) and amf_encode_tex (keyed shared textures), one call    *)
(* of a graphics or vendor API per step.                                   *)
(***************************************************************************)

MaxKey == 2

\* glImportSemaphoreFdEXT in create_gl_tex: the Vulkan semaphore a GL
\* semaphore name stands for.
GlImport(glname) ==
    CASE glname = "glsem" -> "sem"
      [] glname = "glCopySem" -> "copySem"

\* One call: the object it works on, what it signals, and the key it passes.
GpuCall(o, on, sig, fen, k) ==
    [op |-> o, obj |-> on, signal |-> sig, fence |-> fen, key |-> k]

\* A step of an entry point: the call, and the exceptions its failure can
\* throw (none: the step cannot fail).
Step(c, xs) == [call |-> c, fails |-> xs]

\* Mutant: the surface is handed to SubmitInput before the copy is queued.
amf_encode_tex2_submits_first(lock_key, next_key) ==
    <<Step(GpuCall("get_output_tex", "", "", "", 0),
           {Throw("cstr", "Vulkan error"),
            Throw("cstr", "OpenGL semaphore import failed")}),
      Step(GpuCall("vkWaitForFences", "copyFence", "", "", 0),
           {Throw("cstr", "Vulkan error")}),
      Step(GpuCall("vkResetFences", "copyFence", "", "", 0),
           {Throw("cstr", "Vulkan error")}),
      Step(GpuCall("glWaitSemaphoreEXT", GlImport("glCopySem"), "", "", 0), {}),
      Step(GpuCall("glBlitFramebuffer", "planes[0]", "", "", 0), {}),
      Step(GpuCall("glBlitFramebuffer", "planes[1]", "", "", 0), {}),
      Step(GpuCall("glSignalSemaphoreEXT", GlImport("glsem"), "", "", 0), {}),
      Step(GpuCall("CreateSurfaceFromVulkanNative", "", "", "", 0),
           {Throw("amf_error", "CreateSurfaceFromVulkanNative failed")}),
      Step(GpuCall("SubmitInput", "", "", "", 0),
           {Throw("amf_error", "SubmitInput failed")}),
      Step(GpuCall("vkBeginCommandBuffer", "cmdbuf", "", "", 0),
           {Throw("cstr", "Vulkan error")}),
      Step(GpuCall("vkCmdCopyImage", "planes[0]", "", "", 0), {}),
      Step(GpuCall("vkCmdCopyImage", "planes[1]", "", "", 0), {}),
      Step(GpuCall("vkEndCommandBuffer", "cmdbuf", "", "", 0),
           {Throw("cstr", "Vulkan error")}),
      Step(GpuCall("vkQueueSubmit", "sem", "copySem", "copyFence", 0),
           {Throw("cstr", "Vulkan error")}),
      Step(GpuCall("Sync.hSemaphore", "copySem", "", "", 0), {}),
      Step(GpuCall("SetPts", "", "", "", 0), {}),
      Step(GpuCall("active_textures", "", "", "", 0), {})>>

\* amf_encode_tex2 after the test of the texture, in the order of the code;
\* get_output_tex includes create_gl_tex, and amf_encode_base is the one
\* step "SubmitInput".
amf_encode_tex2(lock_key, next_key) ==
    <<Step(GpuCall("get_output_tex", "", "", "", 0),
           {Throw("cstr", "Vulkan error"),
            Throw("cstr", "OpenGL semaphore import failed")}),
      Step(GpuCall("vkWaitForFences", "copyFence", "", "", 0),
           {Throw("cstr", "Vulkan error")}),
      Step(GpuCall("vkResetFences", "copyFence", "", "", 0),
           {Throw("cstr", "Vulkan error")}),
      Step(GpuCall("glWaitSemaphoreEXT", GlImport("glCopySem"), "", "", 0), {}),
      Step(GpuCall("glBlitFramebuffer", "planes[0]", "", "", 0), {}),
      Step(GpuCall("glBlitFramebuffer", "planes[1]", "", "", 0), {}),
      Step(GpuCall("glSignalSemaphoreEXT", GlImport("glsem"), "", "", 0), {}),
      Step(GpuCall("CreateSurfaceFromVulkanNative", "", "", "", 0),
           {Throw("amf_error", "CreateSurfaceFromVulkanNative failed")}),
      Step(GpuCall("vkBeginCommandBuffer", "cmdbuf", "", "", 0),
           {Throw("cstr", "Vulkan error")}),
      Step(GpuCall("vkCmdCopyImage", "planes[0]", "", "", 0), {}),
      Step(GpuCall("vkCmdCopyImage", "planes[1]", "", "", 0), {}),
      Step(GpuCall("vkEndCommandBuffer", "cmdbuf", "", "", 0),
           {Throw("cstr", "Vulkan error")}),
      Step(GpuCall("vkQueueSubmit", "sem", "copySem", "copyFence", 0),
           {Throw("cstr", "Vulkan error")}),
      Step(GpuCall("Sync.hSemaphore", "copySem", "", "", 0), {}),
      Step(GpuCall("SetPts", "", "", "", 0), {}),
      Step(GpuCall("active_textures", "", "", "", 0), {}),
      Step(GpuCall("SubmitInput", "", "", "", 0),
           {Throw("amf_error", "SubmitInput failed")})>>

\* Mutant: the keyed mutex is released after the surface is created.
amf_encode_tex_releases_late(lock_key, next_key) ==
    <<Step(GpuCall("get_tex_from_handle", "", "", "", 0),
           {Throw("HRError", "OpenSharedResource failed"),
            Throw("cstr", "QueryInterface(IDXGIKeyedMutex) failed")}),
      Step(GpuCall("get_output_tex", "", "", "", 0),
           {Throw("HRError", "Failed to create texture")}),
      Step(GpuCall("AcquireSync", "km", "", "", lock_key), {}),
      Step(GpuCall("CopyResource", "output_tex", "", "", 0), {}),
      Step(GpuCall("Flush", "context", "", "", 0), {}),
      Step(GpuCall("CreateSurfaceFromDX11Native", "", "", "", 0),
           {Throw("amf_error", "CreateSurfaceFromDX11Native failed")}),
      Step(GpuCall("ReleaseSync", "km", "", "", next_key), {}),
      Step(GpuCall("SetPts", "", "", "", 0), {}),
      Step(GpuCall("active_textures", "", "", "", 0), {}),
      Step(GpuCall("SubmitInput", "", "", "", 0),
           {Throw("amf_error", "SubmitInput failed")})>>

\* amf_encode_tex (_WIN32) after the test of the handle, in the order of the
\* code; the HRESULT of AcquireSync and of ReleaseSync is not looked at.
amf_encode_tex(lock_key, next_key) ==
    <<Step(GpuCall("get_tex_from_handle", "", "", "", 0),
           {Throw("HRError", "OpenSharedResource failed"),
            Throw("cstr", "QueryInterface(IDXGIKeyedMutex) failed")}),
      Step(GpuCall("get_output_tex", "", "", "", 0),
           {Throw("HRError", "Failed to create texture")}),
      Step(GpuCall("AcquireSync", "km", "", "", lock_key), {}),
      Step(GpuCall("CopyResource", "output_tex", "", "", 0), {}),
      Step(GpuCall("Flush", "context", "", "", 0), {}),
      Step(GpuCall("ReleaseSync", "km", "", "", next_key), {}),
      Step(GpuCall("CreateSurfaceFromDX11Native", "", "", "", 0),
           {Throw("amf_error", "CreateSurfaceFromDX11Native failed")}),
      Step(GpuCall("SetPts", "", "", "", 0), {}),
      Step(GpuCall("active_textures", "", "", "", 0), {}),
      Step(GpuCall("SubmitInput", "", "", "", 0),
           {Throw("amf_error", "SubmitInput failed")})>>

\* The steps of the entry point e.
Program(e, lock_key, next_key) ==
    IF e = "amf_encode_tex2"
    THEN amf_encode_tex2(lock_key, next_key)
    ELSE amf_encode_tex(lock_key, next_key)

InitSync ==
    /\ codec = "AVC"
    /\ IdlePreset
    /\ platform \in Platforms
    /\ IdleCaps
    /\ inst = "texencode"
    /\ FreshInstance
    /\ IdleLoad

varsSyncRest ==
    <<varsPreset, varsCreate, varsLoad, pool_log, vkctx, fb, gltex, varsPacket,
      inst,
      output_tex, amf_surf, waiting, elapsed, prev_elapsed, attempts,
      all_full, calls, delivered_in_call, varsEncoder, varsPool,
      varsCallback, varsDestroy>>

\* The host calls encode_texture or encode_texture2 with its keys.
SyncCall ==
    /\ pc = "idle"
    /\ \E e \in EntryPoints(inst, platform), bad \in BOOLEAN, rp \in BOOLEAN,
          lk \in 0..MaxKey, nk \in 0..MaxKey :
          /\ entry' = e
          /\ bad_input' = bad
          /\ rp_in' = rp
          /\ received_packet' = rp
          /\ gpu' = [log |-> <<>>, lock_key |-> lk, next_key |-> nk,
                     next_key_in |-> nk]
    /\ ret' = "none"
    /\ exc' = NoException
    /\ pc' = "entry"
    /\ UNCHANGED varsSyncRest

\* The stub of amf_encode_tex, and the test of the handle or the texture.
SyncEnter ==
    /\ pc = "entry"
    /\ IF IsStub(entry, platform)
       THEN /\ ret' = "false"
            /\ pc' = "idle"
            /\ UNCHANGED <<exc, gpu>>
       ELSE IF bad_input
       THEN /\ gpu' = IF entry = "amf_encode_tex"
                      THEN [gpu EXCEPT !.next_key = gpu.lock_key]
                      ELSE gpu
            /\ exc' = Throw("cstr", "Encode failed: bad texture handle")
            /\ pc' = "catch"
            /\ ret' = ret
       ELSE /\ pc' = "steps"
            /\ UNCHANGED <<exc, ret, gpu>>
    /\ UNCHANGED <<entry, bad_input, rp_in, received_packet>>
    /\ UNCHANGED varsSyncRest

\* The next call of the entry point: it is made, and it succeeds or throws.
SyncStep ==
    /\ pc = "steps"
    /\ LET prog == Program(entry, gpu.lock_key, gpu.next_key)
           st == prog[Len(gpu.log) + 1]
       IN  /\ gpu' = [gpu EXCEPT !.log = Append(@, st.call)]
           /\ \/ /\ exc' = exc
                 /\ pc' = IF Len(gpu.log) + 1 = Len(prog) THEN "catch"
                          ELSE "steps"
              \/ \E x \in st.fails :
                    /\ exc' = x
                    /\ pc' = "catch"
    /\ UNCHANGED <<entry, bad_input, rp_in, received_packet, ret>>
    /\ UNCHANGED varsSyncRest

\* return true, or the matching catch clause.
SyncReturn ==
    /\ pc = "catch"
    /\ ret' = CatchClauses(entry, exc, received_packet).ret
    /\ received_packet' = CatchClauses(entry, exc, received_packet).received
    /\ pc' = "idle"
    /\ UNCHANGED <<entry, bad_input, rp_in, exc, gpu>>
    /\ UNCHANGED varsSyncRest

NextSync == SyncCall \/ SyncEnter \/ SyncStep \/ SyncReturn

SpecSync == InitSync /\ [][NextSync]_vars

(***************************************************************************)
(* Claims about the GPU synchronisation of a texture encode call.          *)
(***************************************************************************)

\* The synchronisation steps of the Vulkan/OpenGL bridge, in the order the
\* claim gives them.
BridgeOrder ==
    <<GpuCall("vkWaitForFences", "copyFence", "", "", 0),
      GpuCall("vkResetFences", "copyFence", "", "", 0),
      GpuCall("glWaitSemaphoreEXT", "copySem", "", "", 0),
      GpuCall("glBlitFramebuffer", "planes[0]", "", "", 0),
      GpuCall("glBlitFramebuffer", "planes[1]", "", "", 0),
      GpuCall("glSignalSemaphoreEXT", "sem", "", "", 0),
      GpuCall("vkQueueSubmit", "sem", "copySem", "copyFence", 0),
      GpuCall("Sync.hSemaphore", "copySem", "", "", 0),
      GpuCall("SubmitInput", "", "", "", 0)>>

BridgeOps == {BridgeOrder[i].op : i \in DOMAIN BridgeOrder}

\* The calls of the log that are synchronisation steps of the bridge.
BridgeCalls == SelectSeq(gpu.log, LAMBDA c : c.op \in BridgeOps)

\* C29: every call of amf_encode_tex2 makes its synchronisation steps in the
\* order: wait on and reset the copy fence; wait on the GL copy semaphore;
\* blit both planes; signal the GL semaphore; queue the Vulkan copy that
\* waits on that semaphore and signals the copy semaphore and the copy
\* fence; record the copy semaphore in the sync block of the surface; and
\* only then SubmitInput.  The surface is never submitted before its copy
\* was queued.
C29_BridgeOrder ==
    entry = "amf_encode_tex2" =>
        /\ IsPrefix(BridgeCalls, BridgeOrder)
        /\ (ret = "true" /\ pc = "idle") => BridgeCalls = BridgeOrder

\* A call of amf_encode_tex2 returned true after all nine steps.
C29_Witness ==
    /\ entry = "amf_encode_tex2"
    /\ pc = "idle"
    /\ ret = "true"
    /\ Len(gpu.log) > 0
    /\ Last(gpu.log).op = "SubmitInput"
    /\ \E i \in DOMAIN gpu.log : gpu.log[i].op = "vkQueueSubmit"

\* The keyed-mutex calls of the log.
MutexCalls ==
    SelectSeq(gpu.log, LAMBDA c : c.op \in {"AcquireSync", "ReleaseSync"})

\* The call is over, or an exception is on its way to a catch clause.
CallEnded == pc = "idle" \/ (pc = "catch" /\ exc.kind # "none")

\* C30: on every path of amf_encode_tex on which the keyed mutex of the
\* input texture is acquired with lock_key it is released with *next_key
\* before the call returns, no step failing while it is held; on every path
\* that fails before the acquire the mutex is not touched; and for an
\* invalid handle *next_key is set to lock_key.
C30_KeyedMutex ==
    (entry = "amf_encode_tex" /\ ~IsStub(entry, platform)
     /\ pc \in {"steps", "catch", "idle"}) =>
        /\ MutexCalls \in
              {<<>>,
               <<GpuCall("AcquireSync", "km", "", "", gpu.lock_key)>>,
               <<GpuCall("AcquireSync", "km", "", "", gpu.lock_key),
                 GpuCall("ReleaseSync", "km", "", "", gpu.next_key_in)>>}
        /\ CallEnded => Len(MutexCalls) \in {0, 2}
        /\ IF bad_input
           THEN gpu.next_key = gpu.lock_key /\ gpu.log = <<>>
           ELSE gpu.next_key = gpu.next_key_in

\* The surface could not be created after the copy: the mutex was acquired
\* with key 1 and released with key 2 before the failure.
C30_Witness ==
    /\ entry = "amf_encode_tex"
    /\ platform = "win32"
    /\ pc = "idle"
    /\ ret = "false"
    /\ exc.msg = "CreateSurfaceFromDX11Native failed"
    /\ gpu.lock_key = 1
    /\ gpu.next_key_in = 2
    /\ MutexCalls = <<GpuCall("AcquireSync", "km", "", "", 1),
                      GpuCall("ReleaseSync", "km", "", "", 2)>>

(***************************************************************************)
(* The Vulkan texture context: amf_texencode::init, add_output_tex and     *)
(* ~amf_texencode as whole operations.                                     *)
(***************************************************************************)

\* The steps of add_output_tex that can throw (VK_CHECK), in order.
AddOutputTexSteps ==
    <<"vkCreateImage", "vkAllocateMemory", "vkBindImageMemory",
      "vkBeginCommandBuffer", "cmd_buf_submit">>

\* add_output_tex with its step f failing (0: none): the image and the
\* memory exist once their calls succeeded; the texture is recorded in
\* input_textures by the push_back at the end.
add_output_tex(ctx, f) ==
    LET id == ctx.next + 1
        reached(k) == f = 0 \/ f > k
    IN  [ctx EXCEPT
            !.next = id,
            !.images = IF reached(1) THEN @ \cup {id} ELSE @,
            !.memory = IF reached(2) THEN @ \cup {id} ELSE @,
            !.input_textures = IF f = 0 THEN Append(@, id) ELSE @]

InitContext ==
    /\ codec = "AVC"
    /\ IdlePreset
    /\ IdleCreate
    /\ IdleLoad
    /\ inst = "texencode"
    /\ FreshInstance

\* The variables of an instance that the context operations leave alone.
varsContextRest ==
    <<varsPreset, varsCreate, varsLoad, pool_log, gpu, fb, gltex, varsPacket,
      inst, pc,
      entry, bad_input, rp_in, received_packet, ret, output_tex, amf_surf,
      waiting, elapsed, prev_elapsed, attempts, all_full, delivered_in_call,
      queued_packets, delivered, next_out, enc_pending, textures_mutex,
      unlocked_access, varsCallback>>

\* amf_*_create_texencode after check_texture_encode_capability: the
\* construction with its step f failing (0: none).  A failure unwinds
\* through the unique_ptr, so the destructor runs on what was built, and the
\* catch clause reroutes to the fallback encoder; a destructor call on a
\* member that was never initialised has undefined behaviour, which either
\* goes unnoticed or ends the process.
ConstructContext ==
    /\ vkctx.phase = "new"
    /\ \E f \in 0..Len(ConstructionSteps) :
          LET have == Initialised(f)
              x == IF f = 0 THEN NoException ELSE ConstructionSteps[f].fails
          IN  /\ x.kind # "none" \/ f = 0
              /\ IF f = 0
                 THEN /\ vkctx' = [vkctx EXCEPT !.phase = "built",
                                                !.vk = TRUE,
                                                !.have = have]
                      /\ UNCHANGED <<exc, destroying, d_pc, pools_alive>>
                 ELSE LET log == amf_texencode_dtor("vk" \in have, <<>>)
                      IN  /\ \E crash \in BOOLEAN :
                                /\ crash => UndefinedCalls(log, have) # {}
                                /\ vkctx' =
                                     [vkctx EXCEPT
                                        !.phase = "failed",
                                        !.vk = "vk" \in have,
                                        !.have = have,
                                        !.log = log,
                                        !.crashed = crash,
                                        !.rerouted = ~crash]
                          /\ exc' = x
                          /\ destroying' = TRUE
                          /\ d_pc' = "done"
                          /\ pools_alive' = FALSE
    /\ UNCHANGED <<varsContextRest, calls, enc_held, varsPool>>

\* A call of amf_encode_tex2 on the built context: get_output_tex takes the
\* last pooled texture or runs add_output_tex, whose step f may fail; the
\* rest of the call either binds the texture in the active map after an
\* accepted SubmitInput or throws before, leaving the texture in neither
\* collection.
EncodeFrame ==
    /\ vkctx.phase = "built"
    /\ calls < MaxFrames
    /\ calls' = calls + 1
    /\ IF available_textures # <<>>
       THEN \E late \in BOOLEAN :
               LET r == get_output_tex(available_textures)
               IN  /\ available_textures' = r.pool
                   /\ active_textures' =
                        IF late THEN active_textures
                        ELSE ActiveAssign(active_textures, calls + 1,
                                          Last(available_textures))
                   /\ enc_held' = IF late THEN enc_held
                                  ELSE enc_held \cup {calls + 1}
                   /\ UNCHANGED <<vkctx, allocated>>
       ELSE \E f \in 0..Len(AddOutputTexSteps), late \in BOOLEAN :
               /\ vkctx' = add_output_tex(vkctx, f)
               /\ allocated' = IF f = 0 THEN allocated \cup {vkctx.next + 1}
                               ELSE allocated
               /\ active_textures' =
                    IF f # 0 \/ late THEN active_textures
                    ELSE ActiveAssign(active_textures, calls + 1,
                                      vkctx.next + 1)
               /\ enc_held' = IF f # 0 \/ late THEN enc_held
                              ELSE enc_held \cup {calls + 1}
               /\ UNCHANGED available_textures
    /\ UNCHANGED <<varsContextRest, exc, textures_mutex, unlocked_access,
                   varsDestroy>>

\* OnSurfaceDataRelease(surf) on the built context.
ReleaseSurface ==
    /\ vkctx.phase = "built"
    /\ \E surf \in enc_held :
          LET r == OnSurfaceDataRelease(available_textures, active_textures,
                                        surf)
          IN  /\ available_textures' = r.pool
              /\ active_textures' = r.active
              /\ enc_held' = enc_held \ {surf}
    /\ UNCHANGED <<varsContextRest, exc, calls, allocated, textures_mutex,
                   unlocked_access, varsDestroy, vkctx>>

\* amf_destroy on the built context: delete enc.
DestroyContext ==
    /\ vkctx.phase = "built"
    /\ vkctx' = [vkctx EXCEPT
                    !.phase = "destroyed",
                    !.log = amf_texencode_dtor(vkctx.vk,
                                               vkctx.input_textures)]
    /\ destroying' = TRUE
    /\ d_pc' = "done"
    /\ pools_alive' = FALSE
    /\ UNCHANGED <<varsContextRest, exc, calls, enc_held, varsPool>>

NextContext ==
    \/ ConstructContext
    \/ EncodeFrame
    \/ ReleaseSurface
    \/ DestroyContext

SpecContext == InitContext /\ [][NextContext]_vars

(***************************************************************************)
(* The fallback path's source format, buffer size and frame copy.          *)
(***************************************************************************)

MaxLinesize == 3

MaxHeight == 3

MaxBufferFrames == 3

InitFallback ==
    /\ codec \in Codecs
    /\ IdlePreset
    /\ IdleCreate
    /\ pool_log = <<>>
    /\ gpu = NoGpu
    /\ vkctx = NoVkCtx
    /\ gltex = NoGlTex
    /\ helper_out = [kind |-> "empty", sections |-> <<>>]
    /\ load_fail = "none"
    /\ enable_hevc = TRUE
    /\ registered = <<>>
    /\ load_exc = "none"
    /\ load_escaped = FALSE
    /\ load_pc = "start"
    /\ IdlePacket
    /\ IdleEnc
    /\ \E f \in SourceFormats, h \in 1..MaxHeight :
          fb = [NoFallback EXCEPT !.src = f, !.format = f, !.cy = h]

varsFallbackRest ==
    <<varsPreset, varsCreate, varsEnc, varsLoad, pool_log, gpu, vkctx, gltex,
      varsPacket>>

\* amf_create_encoder of a fallback instance: the format policy, then the
\* switch that chooses the surface format.
CreateFallbackFormat ==
    /\ fb.phase = "new"
    /\ LET f == video_info_fallback(codec, fb.src)
       IN  fb' = [fb EXCEPT !.phase = "created",
                            !.format = f,
                            !.amf_format = SurfaceFormatOf(f, @)]
    /\ UNCHANGED varsFallbackRest

\* amf_encode_fallback up to copy_frame_data, for a frame whose first plane
\* has the row stride ls: linesize is taken from the first frame, get_buf
\* takes the last pooled buffer or calls alloc_buf, copy_frame_data writes.
EncodeFallbackFrame ==
    /\ fb.phase = "created"
    /\ fb.exc = NoException
    /\ fb.frames < MaxBufferFrames
    /\ \E ls \in 1..MaxLinesize :
          LET l == IF fb.linesize = 0 THEN ls ELSE fb.linesize
              pooled == fb.available_buffers # <<>>
              a == alloc_buf(fb.amf_format, l, fb.cy)
              size == IF pooled THEN Last(fb.available_buffers) ELSE a.size
          IN  IF ~pooled /\ a.exc # NoException
              THEN fb' = [fb EXCEPT !.linesize = l, !.exc = a.exc,
                                    !.frames = @ + 1]
              ELSE fb' = [fb EXCEPT
                             !.linesize = l,
                             !.frames = @ + 1,
                             !.available_buffers =
                                 IF pooled THEN Front(@) ELSE @,
                             !.active_buffers = Append(@, size),
                             !.size = size,
                             !.written = copy_frame_data(fb.amf_format, l,
                                                         fb.cy)]
    /\ UNCHANGED varsFallbackRest

\* OnSurfaceDataRelease of amf_fallback for the i-th active buffer.
ReleaseFallbackBuffer ==
    /\ fb.phase = "created"
    /\ \E i \in DOMAIN fb.active_buffers :
          fb' = [fb EXCEPT
                    !.available_buffers = Append(@, fb.active_buffers[i]),
                    !.active_buffers =
                        SubSeq(@, 1, i - 1) \o SubSeq(@, i + 1, Len(@))]
    /\ UNCHANGED varsFallbackRest

NextFallback ==
    \/ CreateFallbackFormat
    \/ EncodeFallbackFrame
    \/ ReleaseFallbackBuffer

SpecFallback == InitFallback /\ [][NextFallback]_vars

(***************************************************************************)
(* Claims about the fallback path's format and buffers.                    *)
(***************************************************************************)

\* The format the claim gives for a codec and a source format.
PolicyTable(c, f) ==
    IF f \in {"RGBA", "BGRA", "BGRX"} THEN "RGBA"
    ELSE IF c # "AVC" /\ f \in {"I010", "P010"} THEN "P010"
    ELSE "NV12"

\* C32: the fallback format policy maps every source format to RGBA, NV12
\* or P010 as the table says and maps its own result to itself; so the
\* surface format of a fallback instance is one alloc_buf has a size for,
\* and no frame fails with "Invalid amf_format".
C32_FallbackFormatPolicy ==
    /\ fb.exc.msg # "Invalid amf_format"
    /\ fb.phase = "created" =>
          /\ fb.format \in {"RGBA", "NV12", "P010"}
          /\ fb.format = PolicyTable(codec, fb.src)
          /\ video_info_fallback(codec, fb.format) = fb.format
          /\ fb.amf_format = fb.format
          /\ \A ls \in 1..MaxLinesize :
                alloc_buf(fb.amf_format, ls, fb.cy).exc = NoException

\* An AVC fallback instance with a 10-bit source allocated an NV12 buffer.
C32_Witness ==
    /\ codec = "AVC"
    /\ fb.src = "I010"
    /\ fb.amf_format = "NV12"
    /\ fb.frames > 0
    /\ fb.size > 0

\* Every buffer of the instance, pooled or active.
Buffers ==
    {fb.available_buffers[i] : i \in DOMAIN fb.available_buffers}
        \cup {fb.active_buffers[i] : i \in DOMAIN fb.active_buffers}

FreesOf(op, id) ==
    {i \in DOMAIN vkctx.log :
        vkctx.log[i].op = op /\ vkctx.log[i].arg = <<"input_textures", id>>}

\* The output textures whose image and memory were both allocated.
AllocatedPairs == vkctx.images \cap vkctx.memory

\* C31: the destructor of a fully constructed context sets the destroying
\* flag, waits for the device to be idle, and then frees the memory and the
\* image of every output texture ever allocated for the context exactly
\* once, wherever the texture is at that moment.
C31_EveryPairFreedOnce ==
    vkctx.phase = "destroyed" =>
        /\ destroying
        /\ vkctx.log[1].op = "os_atomic_set_bool"
        /\ vkctx.log[2].op = "vkDeviceWaitIdle"
        /\ \A id \in AllocatedPairs :
              /\ Cardinality(FreesOf("vkFreeMemory", id)) = 1
              /\ Cardinality(FreesOf("vkDestroyImage", id)) = 1
              /\ \A i \in FreesOf("vkFreeMemory", id)
                          \cup FreesOf("vkDestroyImage", id) : i > 2

\* C37: when the construction of a Vulkan texture context fails after the
\* object exists, its destructor calls only what was initialised (the
\* encoder component, the AMF contexts, the Vulkan device and the GL entry
\* points included), and the reroute to the fallback encoder is reached.
C37_PartialTeardownIsDefined ==
    vkctx.phase = "failed" =>
        /\ UndefinedCalls(vkctx.log, vkctx.have) = {}
        /\ vkctx.rerouted

(***************************************************************************)
(* The copy fence and the two semaphores of the Vulkan/OpenGL bridge over  *)
(* consecutive calls of amf_encode_tex2.                                   *)
(***************************************************************************)

MaxBridgeCalls == 3

\* The steps of one call; the keys play no part on Linux.
BridgeProgram == amf_encode_tex2(0, 0)

\* The position of the call of op in the program.
StepOf(op) == CHOOSE i \in DOMAIN BridgeProgram : BridgeProgram[i].call.op = op

\* create_gl_tex: nothing once glsem is set; else the fence is created
\* unsignalled, and cmd_buf_submit queues a submission that signals copySem
\* and copyFence.
create_gl_tex(g) ==
    IF g.glsem
    THEN g
    ELSE [g EXCEPT !.glsem = TRUE,
                   !.fence_sub = TRUE,
                   !.copy_signal = @ + 1]

\* What the call c of the frame does to the fence and the semaphores when it
\* succeeds: a wait is written with the signal it finds.
BridgeEffect(g, c) ==
    CASE c.op = "get_output_tex" -> create_gl_tex(g)
      [] c.op = "vkResetFences" -> [g EXCEPT !.fence_sub = FALSE]
      [] c.op = "glWaitSemaphoreEXT" ->
            [g EXCEPT !.copy_waits = @ \cup {<<"gl", g.calls, g.copy_signal>>}]
      [] c.op = "glSignalSemaphoreEXT" -> [g EXCEPT !.gl_signal = @ + 1]
      [] c.op = "vkQueueSubmit" ->
            [g EXCEPT !.gl_waits = @ \cup {<<g.calls, g.gl_signal>>},
                      !.copy_signal = @ + 1,
                      !.fence_sub = TRUE]
      [] c.op = "SubmitInput" -> [g EXCEPT !.amf_pending = @ \cup {g.calls}]
      [] OTHER -> g

\* What a failing step leaves behind: the semaphore import is the last test
\* of create_gl_tex, so everything before it was done; any other failing
\* call did nothing.
BridgeFailure(g, x) ==
    IF x = Throw("cstr", "OpenGL semaphore import failed")
    THEN create_gl_tex(g)
    ELSE g

\* The exceptions the step st can throw: the import is tested only while
\* create_gl_tex runs.
BridgeFails(g, st) ==
    IF g.glsem
    THEN st.fails \ {Throw("cstr", "OpenGL semaphore import failed")}
    ELSE st.fails

InitBridge ==
    /\ codec = "AVC"
    /\ IdlePreset
    /\ IdleCreate
    /\ IdleLoad
    /\ inst = "texencode"
    /\ FreshInstance

varsBridgeRest ==
    <<varsPreset, varsCreate, varsEnc, varsLoad, pool_log, gpu, vkctx, fb,
      varsPacket>>

\* The host calls encode_texture2 with a texture.
BridgeCall ==
    /\ gltex.step = 0
    /\ gltex.calls < MaxBridgeCalls
    /\ gltex' = [gltex EXCEPT !.step = 1, !.calls = @ + 1]
    /\ UNCHANGED varsBridgeRest

\* The next call of amf_encode_tex2: vkWaitForFences with UINT64_MAX does
\* not return while no queued submission signals the fence; any other call
\* succeeds, or fails and the catch clause returns false.
BridgeStep ==
    /\ gltex.step > 0
    /\ ~gltex.blocked
    /\ LET st == BridgeProgram[gltex.step]
           last == gltex.step = Len(BridgeProgram)
       IN  IF st.call.op = "vkWaitForFences" /\ ~gltex.fence_sub
           THEN gltex' = [gltex EXCEPT !.blocked = TRUE]
           ELSE \/ gltex' = [BridgeEffect(gltex, st.call) EXCEPT
                                !.step = IF last THEN 0 ELSE @ + 1,
                                !.failed_at = IF last THEN 0 ELSE @]
                \/ \E x \in BridgeFails(gltex, st) :
                      gltex' = [BridgeFailure(gltex, x) EXCEPT
                                   !.step = 0,
                                   !.failed_at = gltex.step]
    /\ UNCHANGED varsBridgeRest

\* The vendor's encoder takes up a submitted surface whose sync block says
\* bSubmitted: it waits on hSemaphore, and it signals the semaphore again or
\* it does not.
VendorWait ==
    /\ \E c \in gltex.amf_pending, again \in BOOLEAN :
          gltex' = [gltex EXCEPT
                       !.amf_pending = @ \ {c},
                       !.copy_waits = @ \cup {<<"amf", c, gltex.copy_signal>>},
                       !.copy_signal = IF again THEN @ + 1 ELSE @]
    /\ UNCHANGED varsBridgeRest

NextBridge == BridgeCall \/ BridgeStep \/ VendorWait

SpecBridge == InitBridge /\ [][NextBridge]_vars

(***************************************************************************)
(* Claims about the bridge's fence and semaphores.                         *)
(***************************************************************************)

\* C35: a failed frame does not block later frames: whenever a call of
\* amf_encode_tex2 waits on the copy fence, a submission that signals the
\* fence was queued since the fence was last reset, so no call stays in
\* vkWaitForFences.
C35_FailedFrameDoesNotBlock ==
    /\ gltex.step = StepOf("vkWaitForFences") => gltex.fence_sub
    /\ ~gltex.blocked

\* The waits written on the signal id of the copy semaphore.
CopyWaitsOn(id) == {w \in gltex.copy_waits : w[3] = id}

\* The Vulkan submissions that wait on the signal id of the GL semaphore.
GlWaitsOn(id) == {w \in gltex.gl_waits : w[2] = id}

\* C36: every signal of the copy semaphore is waited on at most once (never
\* by the OpenGL wait of the next frame and by the vendor's encoder both),
\* and between calls every signal of the GL semaphore has been waited on by
\* exactly one Vulkan submission.
C36_OneWaitPerSignal ==
    /\ \A id \in 1..gltex.copy_signal : Cardinality(CopyWaitsOn(id)) <= 1
    /\ gltex.step = 0 =>
          \A id \in 1..gltex.gl_signal : Cardinality(GlWaitsOn(id)) = 1

(***************************************************************************)
(* Claims about the preset name and the QUALITY_PRESET value applied       *)
(* (checked under SpecPreset).                                             *)
(***************************************************************************)

\* The quality level of a QUALITY_PRESET value, in the order of PresetRank.
ValueRank(v) ==
    CASE v = "AV1_HIGH_QUALITY" -> 3
      [] v \in {"AVC_QUALITY", "HEVC_QUALITY", "AV1_QUALITY"} -> 2
      [] v \in {"AVC_BALANCED", "HEVC_BALANCED", "AV1_BALANCED"} -> 1
      [] OTHER -> 0

\* amf_*_create_internal: set_*_property(enc, QUALITY_PRESET,
\* get_*_preset(enc, preset)) with the settings' string, before *_init.
AppliedBefore == get_preset(codec, preset_in)

\* The value of QUALITY_PRESET when check_preset_compatibility returns.
AppliedAfter == IF props = <<>> THEN AppliedBefore ELSE Last(props).value

\* The name p and the value v are the same quality level; a string that is
\* none of the four names has no level of its own.
NameDenotes(p, v) == SchemaPreset(p) => PresetRank(p) = ValueRank(v)

\* C38: for every codec and every preset string, the name that
\* check_preset_compatibility compares denotes the level of the
\* QUALITY_PRESET value applied, when the cascade starts and when it ends,
\* and the value applied after the cascade is not a higher quality than the
\* value applied before it.
C38_NameMatchesAppliedValue ==
    Checked =>
        /\ NameDenotes(preset_in, AppliedBefore)
        /\ NameDenotes(preset, AppliedAfter)
        /\ ValueRank(AppliedAfter) <= ValueRank(AppliedBefore)

(***************************************************************************)
(* The B-frame properties of an AVC encoder for every count of the         *)
(* properties page.                                                        *)
(***************************************************************************)

\* obs_properties_add_int(props, "bf", ..., 0, 5, 1): the largest count.
BFramesMax == 5

\* The settings of an AVC encoder by the B-frame count and the rate control.
BFrameSettings ==
    {[NoSettings EXCEPT !.bf = b, !.rate_control = rc] :
        b \in 0..BFramesMax, rc \in {"CBR", "CQP"}}

InitBFrames ==
    /\ InitSettings
    /\ codec = "AVC"

\* amf_avc_init up to check_preset_compatibility, with a B-frame count of
\* the properties page.
AvcInitProperties ==
    /\ cfg_pc = "created"
    /\ \E st \in BFrameSettings :
          /\ settings' = st
          /\ props' = props \o amf_avc_init(bframes_supported, st,
                                            ovi.fps_num, fps_den)
    /\ cfg_pc' = "set"
    /\ UNCHANGED throughput
    /\ UNCHANGED varsSettingsRest

NextBFrames == CalcThroughput \/ CreateProperties \/ AvcInitProperties

SpecBFrames == InitBFrames /\ [][NextBFrames]_vars

\* C40: on a device with B-frame support the B-picture pattern written is
\* the requested count and does not exceed the maximum of consecutive
\* B-pictures written (3), for every count of 0 to 5; on a device without
\* B-frame support neither property is written.
C40_PatternWithinMaximum ==
    cfg_pc = "set" =>
        IF bframes_supported
        THEN /\ ValuesOf("MAX_CONSECUTIVE_BPICTURES") = <<3>>
             /\ ValuesOf("B_PIC_PATTERN") = <<settings.bf>>
             /\ \A i \in DOMAIN ValuesOf("B_PIC_PATTERN") :
                   ValuesOf("B_PIC_PATTERN")[i]
                       <= ValuesOf("MAX_CONSECUTIVE_BPICTURES")[1]
        ELSE /\ ValuesOf("MAX_CONSECUTIVE_BPICTURES") = <<>>
             /\ ValuesOf("B_PIC_PATTERN") = <<>>

====
